---- MODULE Spec2Model ----
(***************************************************************************)
(* cargo-feature-combinations: the Feature Combination Engine              *)
(* (Package::config, Package::feature_combinations, Package::feature_matrix *)
(* and the two base-powerset generators of src/src/lib.rs).                *)
(*                                                                         *)
(* A feature name is a string.  A HashSet<String> / BTreeSet<&String> is a *)
(* set of names, a Vec<HashSet<String>> is a sequence of sets, and the     *)
(* Vec<Vec<&String>> returned by feature_combinations is a sequence of     *)
(* sequences of names.  A String built by join(",") is the sequence of its *)
(* tokens: the names with "," between them.                                *)
(***************************************************************************)
EXTENDS Integers, Sequences, FiniteSets, TLC

VARIABLES
    features,       \* cargo_metadata::Package.features: the declared names (map keys)
    optional_deps,  \* the declared names that exist only because of an optional dependency
    doc,            \* package.metadata["cargo-feature-combinations"], as written in Cargo.toml
    config,         \* the Config handed to feature_combinations / feature_matrix
    warnings,       \* the deprecation warnings Package::config wrote to stderr
    combinations,   \* value returned by Package::feature_combinations
    matrix,         \* value returned by Package::feature_matrix
    matrix_len,     \* length of the vector returned by Package::feature_matrix
    err,            \* the error the caller got back, "none" if it got none
    pc,             \* position of the caller: "start" -> "configured" -> "combined" | "matrix"
    options,        \* Options: the flags of the invocation
    packages,       \* the packages handed to run_cargo_command, in order
    package_idx,    \* run_cargo_command: position of `for package in packages`, 0 before it
    features_idx,   \* run_cargo_command: position of `for features in ...` in combinations
    spawned,        \* the cargo subprocesses spawned so far: <<package name, features>>
    reports,        \* the lines the last subprocess wrote to its stderr
    colored_output, \* the bytes captured from that stderr
    counts,         \* num_warnings and num_errors counted in the stripped output
    summary,        \* Vec<Summary>: the outcomes recorded so far
    printed,        \* None, or Some(the lines print_summary printed)
    exit_code,      \* None while the process runs, Some(its exit code) afterwards
    metadata,       \* cargo_metadata::Metadata: the workspace `cargo metadata` reported
    args,           \* parse_arguments: the Vec<String> of command-line arguments
    matched,        \* parse_arguments: the spans of the running `for .. in args.get_all(..)`
    flag_idx,       \* parse_arguments: how many of its flags have been looked up
    cli,            \* parse_arguments: the Options it fills in
    cargo_args,     \* run_cargo_command: the arguments its caller passed
    split_args,     \* run_cargo_command: None, or Some(the arguments split at "--")
    argv,           \* run_cargo_command: None, or Some(the args of the last cargo command)
    proc_stderr,    \* the bytes the subprocess wrote to its stderr that are not read yet
    buf,            \* io::copy: None, or Some(the chunk read and not yet written)
    stdout,         \* what was written to the standard output, in order
    flushed         \* how many entries of stdout have been flushed to the terminal

enginevars == <<features, optional_deps, doc, config, warnings, combinations, matrix,
                matrix_len, err, pc>>

runvars == <<options, packages, package_idx, features_idx, spawned, reports,
             colored_output, counts, summary, printed, exit_code>>

argvars == <<args, matched, flag_idx, cli, cargo_args, split_args, argv>>
teevars == <<proc_stderr, buf, stdout, flushed>>
vars == <<enginevars, runvars, metadata, argvars, teevars>>

\* Option<T>
None == <<>>
Some(x) == <<x>>

(***************************************************************************)
(* Bounds of the explored inputs.                                          *)
(***************************************************************************)
\* number of distinct feature names the bounded inputs are written with
MaxNames == 3
\* size of a bounded Config: list entries plus listed flags, over all fields
MaxItems == 2

\* feature names in ascending String order (byte-wise Ord of String)
AllNames == <<"A", "B", "C", "D", "E", "F">>
Names == {AllNames[i] : i \in 1..MaxNames}

(***************************************************************************)
(* Orderings: String::cmp on names, Vec::cmp (lexicographic) on vectors.   *)
(***************************************************************************)
Rank(name) == CHOOSE i \in 1..Len(AllNames) : AllNames[i] = name

ToSet(vec) == {vec[i] : i \in 1..Len(vec)}

\* BTreeSet<&String>::into_iter().sorted(): the members in ascending order
RECURSIVE SortedMembers(_)
SortedMembers(set) ==
    IF set = {} THEN <<>>
    ELSE LET m == CHOOSE x \in set : \A y \in set : Rank(x) <= Rank(y)
         IN <<m>> \o SortedMembers(set \ {m})

\* Ord for Vec<&String>: lexicographic, a proper prefix is smaller
RECURSIVE VecLess(_, _)
VecLess(a, b) ==
    IF a = <<>> THEN b # <<>>
    ELSE IF b = <<>> THEN FALSE
    ELSE IF Head(a) # Head(b) THEN Rank(Head(a)) < Rank(Head(b))
    ELSE VecLess(Tail(a), Tail(b))

\* the vectors ordered by length first, and only then lexicographically
RECURSIVE SortedByLength(_)
SortedByLength(vecs) ==
    IF vecs = {} THEN <<>>
    ELSE LET m == CHOOSE x \in vecs : \A y \in vecs :
                      \/ x = y
                      \/ Len(x) < Len(y)
                      \/ Len(x) = Len(y) /\ VecLess(x, y)
         IN <<m>> \o SortedByLength(vecs \ {m})

\* Itertools::sorted over the vectors collected from a set (no two are equal)
RECURSIVE SortedVecs(_)
SortedVecs(vecs) ==
    IF vecs = {} THEN <<>>
    ELSE LET m == CHOOSE x \in vecs : \A y \in vecs : x = y \/ VecLess(x, y)
         IN <<m>> \o SortedVecs(vecs \ {m})

(***************************************************************************)
(* Config and DeprecatedConfig (src/src/config.rs) with their Default.     *)
(* The opaque `matrix` map is not read by the combination engine and is    *)
(* left out.                                                               *)
(***************************************************************************)
DefaultDeprecatedConfig ==
    [ skip_feature_sets  |-> <<>>,
      denylist           |-> {},
      exact_combinations |-> <<>> ]

DefaultConfig ==
    [ isolated_feature_sets |-> <<>>,
      exclude_features      |-> {},
      include_features      |-> {},
      exclude_packages      |-> {},
      exclude_feature_sets  |-> <<>>,
      include_feature_sets  |-> <<>>,
      deprecated            |-> DefaultDeprecatedConfig ]

(***************************************************************************)
(* The configuration document: doc.kind says whether the manifest has a    *)
(* [package.metadata.cargo-feature-combinations] table, doc.table maps the *)
(* keys written in it to their values.                                     *)
(***************************************************************************)
AbsentDoc == [kind |-> "absent", table |-> <<>>]

\* a document serde_json::from_value::<Config> rejects (a value of the wrong type)
MalformedDoc == [kind |-> "malformed", table |-> <<>>]

\* Package::config returns the error of serde_json::from_value(config.clone())?
config_is_err(d) == d.kind = "malformed"

\* #[serde(default)]: a key the table does not hold takes the default
Field(table, key, default) == IF key \in DOMAIN table THEN table[key] ELSE default

\* serde_json::from_value::<Config>: the fields Config declares are read, the
\* deprecated ones through #[serde(flatten)]; any other key is ignored
from_value(table) ==
    [ isolated_feature_sets |-> Field(table, "isolated_feature_sets", <<>>),
      exclude_features      |-> Field(table, "exclude_features", {}),
      include_features      |-> Field(table, "include_features", {}),
      exclude_packages      |-> Field(table, "exclude_packages", {}),
      exclude_feature_sets  |-> Field(table, "exclude_feature_sets", <<>>),
      include_feature_sets  |-> Field(table, "include_feature_sets", <<>>),
      deprecated            |->
        [ skip_feature_sets  |-> Field(table, "skip_feature_sets", <<>>),
          denylist           |-> Field(table, "denylist", {}),
          exact_combinations |-> Field(table, "exact_combinations", <<>>) ] ]

\* Package::config, the warnings it prints: one per non-empty deprecated field
config_warnings(d) ==
    (IF d.kind = "absent" THEN <<>> ELSE
     LET c == from_value(d.table)
     IN (IF c.deprecated.skip_feature_sets # <<>> THEN <<"skip_feature_sets">> ELSE <<>>)
        \o (IF c.deprecated.denylist # {} THEN <<"denylist">> ELSE <<>>)
        \o (IF c.deprecated.exact_combinations # <<>> THEN <<"exact_combinations">> ELSE <<>>))

\* the deprecated fields replace their successors instead of being merged into them
ConfigDeprecatedReplaces(d) ==
    LET c == IF d.kind = "absent" THEN DefaultConfig ELSE from_value(d.table)
    IN [ c EXCEPT
           !.exclude_feature_sets = IF c.deprecated.skip_feature_sets # <<>>
                                    THEN c.deprecated.skip_feature_sets
                                    ELSE c.exclude_feature_sets,
           !.exclude_features     = IF c.deprecated.denylist # {}
                                    THEN c.deprecated.denylist
                                    ELSE c.exclude_features,
           !.include_feature_sets = IF c.deprecated.exact_combinations # <<>>
                                    THEN c.deprecated.exact_combinations
                                    ELSE c.include_feature_sets,
           !.deprecated           = DefaultDeprecatedConfig ]

\* Package::config, the Config it returns: the deprecated fields are appended to
\* (extended into) their replacements and left empty
Package_config(d) ==
    LET c == IF d.kind = "absent" THEN DefaultConfig ELSE from_value(d.table)
    IN [ c EXCEPT
           !.exclude_feature_sets = c.exclude_feature_sets \o c.deprecated.skip_feature_sets,
           !.exclude_features     = c.exclude_features \cup c.deprecated.denylist,
           !.include_feature_sets = c.include_feature_sets \o c.deprecated.exact_combinations,
           !.deprecated           = DefaultDeprecatedConfig ]

(***************************************************************************)
(* generate_global_base_powerset: powerset of the declared names that are  *)
(* not in exclude_features, include_features chained into every element.   *)
(***************************************************************************)
GlobalDropsFullSet(package_features, exclude_features, include_features) ==
    LET eligible == {ft \in package_features : ft \notin exclude_features}
    IN { combination \cup include_features : combination \in (SUBSET eligible) \ {eligible} }

GlobalIncludesDeclaredOnly(package_features, exclude_features, include_features) ==
    { combination \cup (include_features \cap package_features) :
        combination \in SUBSET {ft \in package_features : ft \notin exclude_features} }

GlobalKeepsExcluded(package_features, exclude_features, include_features) ==
    { combination \cup include_features : combination \in SUBSET package_features }

generate_global_base_powerset(package_features, exclude_features, include_features) ==
    { combination \cup include_features :
        combination \in SUBSET {ft \in package_features : ft \notin exclude_features} }

(***************************************************************************)
(* generate_isolated_base_powerset: per isolated set, the powerset of its  *)
(* known, non-excluded names, include_features chained into every element; *)
(* all collected into one BTreeSet.                                        *)
(***************************************************************************)
IsolatedCrossGroups(package_features, isolated_feature_sets, exclude_features, include_features) ==
    { combination \cup include_features :
        combination \in SUBSET { ft \in UNION ToSet(isolated_feature_sets) :
                                   ft \in package_features /\ ft \notin exclude_features } }

IsolatedKeepsUnknown(package_features, isolated_feature_sets, exclude_features, include_features) ==
    UNION { { combination \cup include_features :
                combination \in SUBSET { ft \in isolated_feature_sets[i] :
                                           ft \notin exclude_features } }
            : i \in 1..Len(isolated_feature_sets) }

IsolatedFirstGroupOnly(package_features, isolated_feature_sets, exclude_features, include_features) ==
    { {feature \in combination : feature \in package_features} \cup include_features :
        combination \in SUBSET { ft \in isolated_feature_sets[1] :
                                   ft \in package_features /\ ft \notin exclude_features } }

generate_isolated_base_powerset(package_features, isolated_feature_sets, exclude_features, include_features) ==
    UNION { { {feature \in combination : feature \in package_features} \cup include_features :
                combination \in SUBSET { ft \in isolated_feature_sets[i] :
                                           ft \in package_features /\ ft \notin exclude_features } }
            : i \in 1..Len(isolated_feature_sets) }

(***************************************************************************)
(* Package::feature_combinations.                                          *)
(***************************************************************************)
\* the closure of the exclusion filter: some skip set is contained in feature_set
ContainsSkipSetExactMatch(feature_set, exclude_feature_sets) ==
    \E i \in 1..Len(exclude_feature_sets) : exclude_feature_sets[i] = feature_set

\* the filter with an empty skip set special-cased to match nothing
ContainsNonEmptySkipSet(feature_set, exclude_feature_sets) ==
    \E i \in 1..Len(exclude_feature_sets) :
        /\ exclude_feature_sets[i] # {}
        /\ \A skip_feature \in exclude_feature_sets[i] : skip_feature \in feature_set

contains_skip_set(feature_set, exclude_feature_sets) ==
    \E i \in 1..Len(exclude_feature_sets) :
        \A skip_feature \in exclude_feature_sets[i] : skip_feature \in feature_set

\* an include_feature_sets entry with the names the package does not declare removed
exact_combination(package_features, proposed_exact_combination) ==
    {maybe_feature \in proposed_exact_combination : maybe_feature \in package_features}

base_powerset(package_features, c) ==
    IF c.isolated_feature_sets = <<>>
    THEN generate_global_base_powerset(package_features, c.exclude_features, c.include_features)
    ELSE generate_isolated_base_powerset(package_features, c.isolated_feature_sets,
                                         c.exclude_features, c.include_features)

FilterAfterAddBack(package_features, c) ==
    LET added == base_powerset(package_features, c)
                 \cup { exact_combination(package_features, c.include_feature_sets[i]) :
                          i \in 1..Len(c.include_feature_sets) }
        filtered_powerset ==
            { feature_set \in added : ~ contains_skip_set(feature_set, c.exclude_feature_sets) }
    IN SortedVecs({ SortedMembers(set) : set \in filtered_powerset })

feature_combinations(package_features, c) ==
    LET filtered_powerset ==
            { feature_set \in base_powerset(package_features, c) :
                ~ contains_skip_set(feature_set, c.exclude_feature_sets) }
        added ==
            filtered_powerset
            \cup { exact_combination(package_features, c.include_feature_sets[i]) :
                     i \in 1..Len(c.include_feature_sets) }
    IN SortedVecs({ SortedMembers(set) : set \in added })

(***************************************************************************)
(* Package::feature_matrix: every combination joined with ",".             *)
(***************************************************************************)
\* Itertools::join: the items with the separator between them
RECURSIVE join(_, _)
join(items, sep) ==
    IF items = <<>> THEN <<>>
    ELSE IF Len(items) = 1 THEN items
    ELSE <<Head(items), sep>> \o join(Tail(items), sep)

feature_matrix(package_features, c) ==
    LET combos == feature_combinations(package_features, c)
    IN [i \in 1..Len(combos) |-> join(combos[i], ",")]

\* Itertools::powerset: the number of combinations it yields for k items
powerset_len(k) == 2 ^ k

\* the length of feature_matrix's vector for a Config that sets nothing but
\* exclude_features: the powerset's elements are distinct and none is filtered out
feature_matrix_len(package_features, c) ==
    powerset_len(Cardinality({ft \in package_features : ft \notin c.exclude_features}))

(***************************************************************************)
(* The state of the run orchestrator while run_cargo_command is not        *)
(* running: default Options, no package, nothing spawned or recorded.      *)
(***************************************************************************)
DefaultOptions == [pedantic |-> FALSE, fail_fast |-> FALSE, silent |-> FALSE]

\* no workspace has been read
NoMetadata ==
    [packages |-> <<>>, workspace_members |-> {}, root |-> None, workspace_metadata |-> AbsentDoc]

\* Options::default(), the fields parse_arguments fills in: switches holds the
\* names of the bool fields that are true
DefaultCli ==
    [ manifest_path |-> None, packages |-> {}, exclude_packages |-> {},
      command |-> None, switches |-> {} ]

\* no command line is being parsed and no argument vector is being built
ArgsIdle ==
    /\ args = <<>>
    /\ matched = <<>>
    /\ flag_idx = 0
    /\ cli = DefaultCli
    /\ cargo_args = <<>>
    /\ split_args = None
    /\ argv = None

\* no subprocess is streaming
TeeIdle ==
    /\ proc_stderr = <<>>
    /\ buf = None
    /\ stdout = <<>>
    /\ flushed = 0

RunIdle ==
    /\ options = DefaultOptions
    /\ packages = <<>>
    /\ package_idx = 0
    /\ features_idx = 1
    /\ spawned = <<>>
    /\ reports = <<>>
    /\ colored_output = <<>>
    /\ counts = [warnings |-> 0, errors |-> 0]
    /\ summary = <<>>
    /\ printed = None
    /\ exit_code = None
    /\ metadata = NoMetadata
    /\ ArgsIdle /\ TeeIdle

(***************************************************************************)
(* Bounded inputs of feature_combinations: every package over Names and    *)
(* every Config over Names with at most MaxItems list entries and flags,   *)
(* and the configuration of the isolated-sets scenario.                    *)
(***************************************************************************)
SetLists(k) == [1..k -> SUBSET Names]
FlagSets(k) == {s \in SUBSET Names : Cardinality(s) = k}

ItemSplits ==
    { s \in [1..5 -> 0..MaxItems] : s[1] + s[2] + s[3] + s[4] + s[5] <= MaxItems }

BoundedConfig(c) ==
    \E s \in ItemSplits :
        \E i \in SetLists(s[1]), e \in SetLists(s[2]), n \in SetLists(s[3]),
           x \in FlagSets(s[4]), y \in FlagSets(s[5]) :
            c = [ DefaultConfig EXCEPT
                    !.isolated_feature_sets = i,
                    !.exclude_feature_sets  = e,
                    !.include_feature_sets  = n,
                    !.exclude_features      = x,
                    !.include_features      = y ]

\* isolated_feature_sets = [{A,B},{C,D}] on a package declaring {A,B,C,D}
ScenarioFeatures == {"A", "B", "C", "D"}
ScenarioConfig ==
    [DefaultConfig EXCEPT !.isolated_feature_sets = << {"A", "B"}, {"C", "D"} >>]

InitBounded ==
    /\ features \in SUBSET Names
    /\ BoundedConfig(config)

InitScenario ==
    /\ features = ScenarioFeatures
    /\ config = ScenarioConfig

\* the state once a Config has been built, before the engine is called
Init ==
    /\ InitBounded \/ InitScenario
    /\ optional_deps = {}
    /\ doc = AbsentDoc
    /\ warnings = <<>>
    /\ combinations = <<>>
    /\ matrix = <<>>
    /\ matrix_len = 0
    /\ err = "none"
    /\ pc = "configured"
    /\ RunIdle

\* let have = package.feature_combinations(&config);
FeatureCombinations ==
    /\ pc = "configured"
    /\ combinations' = feature_combinations(features, config)
    /\ pc' = "combined"
    /\ UNCHANGED <<features, optional_deps, doc, config, warnings, matrix, matrix_len, err>>
    /\ UNCHANGED runvars
    /\ UNCHANGED <<metadata, argvars, teevars>>

Next == FeatureCombinations

Spec == Init /\ [][Next]_vars

(***************************************************************************)
(* SpecDoc: the package's configuration document is read by                *)
(* Package::config and the feature matrix is computed from the result, as  *)
(* the integration tests and print_feature_matrix do.                      *)
(***************************************************************************)
ListKeys ==
    { "isolated_feature_sets", "exclude_feature_sets", "include_feature_sets",
      "skip_feature_sets", "exact_combinations", "allow_feature_sets" }
FlagKeys == { "exclude_features", "include_features", "denylist" }
BoolKeys == { "no_empty_feature_set", "skip_optional_dependencies" }
DocKeys == ListKeys \cup FlagKeys \cup BoolKeys

\* a document whose table holds at most MaxItems list entries, flags and switches
BoundedDoc(d) ==
    \E m \in 0..MaxItems :
        \E picks \in [1..m -> DocKeys] :
            LET n(k) == Cardinality({j \in 1..m : picks[j] = k})
            IN \E iso \in SetLists(n("isolated_feature_sets")),
                  exs \in SetLists(n("exclude_feature_sets")),
                  ins \in SetLists(n("include_feature_sets")),
                  sks \in SetLists(n("skip_feature_sets")),
                  exc \in SetLists(n("exact_combinations")),
                  alw \in SetLists(n("allow_feature_sets")),
                  exf \in FlagSets(n("exclude_features")),
                  inf \in FlagSets(n("include_features")),
                  den \in FlagSets(n("denylist")),
                  nem \in BOOLEAN, sod \in BOOLEAN :
                   LET all == [ isolated_feature_sets |-> iso, exclude_feature_sets |-> exs,
                                include_feature_sets |-> ins, skip_feature_sets |-> sks,
                                exact_combinations |-> exc, allow_feature_sets |-> alw,
                                exclude_features |-> exf, include_features |-> inf,
                                denylist |-> den, no_empty_feature_set |-> nem,
                                skip_optional_dependencies |-> sod ]
                   IN d = [ kind  |-> "table",
                            table |-> [k \in {picks[j] : j \in 1..m} |-> all[k]] ]

InitDoc ==
    /\ features \in SUBSET Names
    /\ optional_deps \in SUBSET features
    /\ doc = AbsentDoc \/ BoundedDoc(doc)
    /\ config = DefaultConfig
    /\ warnings = <<>>
    /\ combinations = <<>>
    /\ matrix = <<>>
    /\ matrix_len = 0
    /\ err = "none"
    /\ pc = "start"
    /\ RunIdle

\* let config = pkg.config()?;
LoadConfig ==
    /\ pc = "start"
    /\ config' = Package_config(doc)
    /\ warnings' = warnings \o config_warnings(doc)
    /\ pc' = "configured"
    /\ UNCHANGED <<features, optional_deps, doc, combinations, matrix, matrix_len, err>>
    /\ UNCHANGED runvars
    /\ UNCHANGED <<metadata, argvars, teevars>>

\* let matrix = pkg.feature_matrix(&config);
FeatureMatrix ==
    /\ pc = "configured"
    /\ matrix' = feature_matrix(features, config)
    /\ matrix_len' = Len(matrix')
    /\ pc' = "matrix"
    /\ UNCHANGED <<features, optional_deps, doc, config, warnings, combinations, err>>
    /\ UNCHANGED runvars
    /\ UNCHANGED <<metadata, argvars, teevars>>

NextDoc == LoadConfig \/ FeatureMatrix

SpecDoc == InitDoc /\ [][NextDoc]_vars

(***************************************************************************)
(* SpecConfig: Package::config alone, on the configuration document of a   *)
(* package whose features play no part.                                    *)
(***************************************************************************)
\* the keys Package::config merges, and the documents that hold at most MaxItems
\* list entries and flags under them
MergedKeys ==
    << "exclude_feature_sets", "skip_feature_sets", "include_feature_sets",
       "exact_combinations", "exclude_features", "denylist" >>

MergedDoc(d) ==
    \E s \in [1..6 -> 0..MaxItems] :
        /\ s[1] + s[2] + s[3] + s[4] + s[5] + s[6] <= MaxItems
        /\ \E exs \in SetLists(s[1]), sks \in SetLists(s[2]), ins \in SetLists(s[3]),
              exc \in SetLists(s[4]), exf \in FlagSets(s[5]), den \in FlagSets(s[6]) :
               LET all == [ exclude_feature_sets |-> exs, skip_feature_sets |-> sks,
                            include_feature_sets |-> ins, exact_combinations |-> exc,
                            exclude_features |-> exf, denylist |-> den ]
               IN d = [ kind  |-> "table",
                        table |-> [k \in {MergedKeys[i] : i \in {j \in 1..6 : s[j] > 0}}
                                     |-> all[k]] ]

InitConfig ==
    /\ features = {}
    /\ optional_deps = {}
    /\ doc = AbsentDoc \/ MergedDoc(doc)
    /\ config = DefaultConfig
    /\ warnings = <<>>
    /\ combinations = <<>>
    /\ matrix = <<>>
    /\ matrix_len = 0
    /\ err = "none"
    /\ pc = "start"
    /\ RunIdle

NextConfig == LoadConfig

SpecConfig == InitConfig /\ [][NextConfig]_vars

(***************************************************************************)
(* SpecMany: packages declaring up to ManyFeatures features, too many for  *)
(* their powerset to be enumerated here; feature_matrix is followed by the *)
(* length of the vector it returns and by the error it reports.            *)
(***************************************************************************)
\* for i in 0..25 { writeln!(features, "f{i} = []") }
ManyFeatures == 25
ManyNames ==
    << "f0", "f1", "f2", "f3", "f4", "f5", "f6", "f7", "f8", "f9", "f10", "f11", "f12",
       "f13", "f14", "f15", "f16", "f17", "f18", "f19", "f20", "f21", "f22", "f23", "f24" >>

InitMany ==
    /\ \E n \in 0..ManyFeatures :
        /\ features = {ManyNames[i] : i \in 1..n}
        /\ \/ doc = AbsentDoc
           \/ \E k \in 0..n :
                doc = [ kind  |-> "table",
                        table |-> [exclude_features |-> {ManyNames[i] : i \in 1..k}] ]
    /\ optional_deps = {}
    /\ config = DefaultConfig
    /\ warnings = <<>>
    /\ combinations = <<>>
    /\ matrix = <<>>
    /\ matrix_len = 0
    /\ err = "none"
    /\ pc = "start"
    /\ RunIdle

\* pkg.feature_matrix(&config) for a Config that sets nothing but exclude_features:
\* the vector is returned whatever its length, its rows are not enumerated here
FeatureMatrixLen ==
    /\ pc = "configured"
    /\ config = [DefaultConfig EXCEPT !.exclude_features = config.exclude_features]
    /\ matrix_len' = feature_matrix_len(features, config)
    /\ pc' = "matrix"
    /\ UNCHANGED <<features, optional_deps, doc, config, warnings, combinations, matrix, err>>
    /\ UNCHANGED runvars
    /\ UNCHANGED <<metadata, argvars, teevars>>

NextMany == LoadConfig \/ FeatureMatrixLen

SpecMany == InitMany /\ [][NextMany]_vars

(***************************************************************************)
(* Captured stderr.  A text is the sequence of its pieces: the words of    *)
(* cargo's summary lines, single decimal digits, " ", "\n", other text     *)
(* ("x", which holds none of those words) and ANSI escape sequences (Esc). *)
(* A regular expression is matched piece by piece; no literal of the two   *)
(* expressions below starts or ends inside one of these pieces.            *)
(***************************************************************************)
Esc == "ESC[m"
DigitChars == <<"0", "1", "2", "3", "4", "5", "6", "7", "8", "9">>

IsDigit(t) == \E d \in 1..10 : DigitChars[d] = t
IsSpace(t) == t \in {" ", "\n"}
DigitValue(t) == (CHOOSE d \in 1..10 : DigitChars[d] = t) - 1

\* the piece at position i, "" past the end of the text
At(text, i) == IF i \in 1..Len(text) THEN text[i] ELSE ""

\* \d* and \d+ from position p: the last position of the longest run of digits,
\* p - 1 when the run is empty
DigitsEnd(text, p) ==
    CHOOSE k \in (p - 1)..Len(text) :
        /\ \A m \in p..k : IsDigit(text[m])
        /\ ~ IsDigit(At(text, k + 1))

\* \s* from position p: the last position of the longest run of whitespace
SpacesEnd(text, p) ==
    CHOOSE k \in (p - 1)..Len(text) :
        /\ \A m \in p..k : IsSpace(text[m])
        /\ ~ IsSpace(At(text, k + 1))

\* the text as captured, escape sequences left in
KeepEscapes(bytes) == bytes

\* strip_ansi_escapes::strip: the text without its escape sequences
strip(bytes) == SelectSeq(bytes, LAMBDA t : t # Esc)

\* str::parse::<usize> of a run of digits, Err (the default) on the empty string;
\* the runs met here stay far below usize::MAX
RECURSIVE parse_digits(_)
parse_digits(digits) ==
    IF digits = <<>> THEN 0
    ELSE 10 * parse_digits(SubSeq(digits, 1, Len(digits) - 1))
         + DigitValue(digits[Len(digits)])

parse_or(digits, default) == IF digits = <<>> THEN default ELSE parse_digits(digits)

\* Iterator::sum
RECURSIVE sum(_)
sum(items) == IF items = <<>> THEN 0 ELSE Head(items) + sum(Tail(items))

\* WARNING_REGEX = "warning: .* generated (\d+) warnings?" matched from position i:
\* the positions of " generated " that .* (any pieces but "\n") can stop before
WarningGenerated(text, i) ==
    { j \in (i + 2)..Len(text) :
        /\ text[j] = " generated "
        /\ \A m \in (i + 2)..(j - 1) : text[m] # "\n"
        /\ IsDigit(At(text, j + 1))
        /\ At(text, DigitsEnd(text, j + 1) + 1) = " "
        /\ At(text, DigitsEnd(text, j + 1) + 2) = "warning" }

WarningMatchAt(text, i) ==
    /\ At(text, i) = "warning"
    /\ At(text, i + 1) = ": "
    /\ WarningGenerated(text, i) # {}

\* captures_iter: the leftmost match from pos, .* as long as it can be, then
\* on from the end of that match
RECURSIVE warning_captures(_, _)
warning_captures(text, pos) ==
    LET starts == {i \in pos..Len(text) : WarningMatchAt(text, i)}
    IN IF starts = {} THEN <<>>
       ELSE LET i == CHOOSE a \in starts : \A b \in starts : a <= b
                j == CHOOSE a \in WarningGenerated(text, i) :
                        \A b \in WarningGenerated(text, i) : a >= b
                k == DigitsEnd(text, j + 1)
                end == IF At(text, k + 3) = "s" THEN k + 3 ELSE k + 2
            IN <<parse_or(SubSeq(text, j + 1, k), 0)>> \o warning_captures(text, end + 1)

warning_counts(output) == warning_captures(output, 1)

\* ERROR_REGEX = "error: could not compile '.*' due to\s*(\d*)\s*previous errors?",
\* where ' is written for the grave accent of the source, matched from position i:
\* the positions of "' due to" that .* can stop before
ErrorDueTo(text, i) ==
    { j \in (i + 3)..Len(text) :
        /\ text[j] = "' due to"
        /\ \A m \in (i + 3)..(j - 1) : text[m] # "\n"
        /\ LET a == SpacesEnd(text, j + 1)
               b == DigitsEnd(text, a + 1)
               c == SpacesEnd(text, b + 1)
           IN At(text, c + 1) = "previous " /\ At(text, c + 2) = "error" }

ErrorMatchAt(text, i) ==
    /\ At(text, i) = "error"
    /\ At(text, i + 1) = ": "
    /\ At(text, i + 2) = "could not compile '"
    /\ ErrorDueTo(text, i) # {}

RECURSIVE error_captures(_, _)
error_captures(text, pos) ==
    LET starts == {i \in pos..Len(text) : ErrorMatchAt(text, i)}
    IN IF starts = {} THEN <<>>
       ELSE LET i == CHOOSE a \in starts : \A b \in starts : a <= b
                j == CHOOSE a \in ErrorDueTo(text, i) : \A b \in ErrorDueTo(text, i) : a >= b
                a == SpacesEnd(text, j + 1)
                b == DigitsEnd(text, a + 1)
                c == SpacesEnd(text, b + 1)
                end == IF At(text, c + 3) = "s" THEN c + 3 ELSE c + 2
            IN <<parse_or(SubSeq(text, a + 1, b), 1)>> \o error_captures(text, end + 1)

error_counts(output) == error_captures(output, 1)

(***************************************************************************)
(* What a cargo subprocess writes to its stderr: a sequence of lines, each *)
(* one of cargo's per-crate summary lines or another diagnostic line.      *)
(***************************************************************************)
\* usize::to_string: the decimal digits of n
RECURSIVE to_digits(_)
to_digits(n) ==
    IF n < 10 THEN <<DigitChars[n + 1]>>
    ELSE to_digits(n \div 10) \o <<DigitChars[(n % 10) + 1]>>

\* "warning" / "error" and the colon after it, each in its own style when colored
Label(word, colored) == IF colored THEN <<Esc, word, Esc, ": ", Esc>> ELSE <<word, ": ">>

Plural(plural) == IF plural THEN <<"s">> ELSE <<>>

render_line(l, colored) ==
    CASE l.kind = "warnings" ->
           \* warning: 'x' (lib) generated N warning(s)
           Label("warning", colored) \o <<"x", " generated ">> \o to_digits(l.n)
               \o <<" ", "warning">> \o Plural(l.plural) \o <<"\n">>
      [] l.kind = "errors" ->
           \* error: could not compile 'x' due to [N] previous error(s)
           Label("error", colored) \o <<"could not compile '", "x", "' due to", " ">>
               \o (IF l.digit THEN to_digits(l.n) \o <<" ">> ELSE <<>>)
               \o <<"previous ", "error">> \o Plural(l.plural) \o <<"\n">>
      [] l.kind = "diagnostic" ->
           \* warning: unused variable
           Label("warning", colored) \o <<"x", "\n">>
      [] l.kind = "aborting" ->
           \* error: aborting due to 2 previous errors
           Label("error", colored) \o <<"x", " ">> \o to_digits(l.n)
               \o <<" ", "previous ", "error", "s", "\n">>
      [] l.kind = "quoted" ->
           \* a line that quotes a summary without the "warning: " in front of it
           <<"x", " generated ">> \o to_digits(l.n) \o <<" ", "warning", "s", "\n">>

RECURSIVE render(_, _)
render(lines, colored) ==
    IF lines = <<>> THEN <<>>
    ELSE render_line(Head(lines), colored) \o render(Tail(lines), colored)

\* the numbers written on the summary lines
WarningNumbers == {1, 6, 7, 12}
ErrorNumbers == {1, 2}

ReportLines ==
    [kind : {"warnings"}, n : WarningNumbers, digit : {TRUE}, plural : BOOLEAN]
    \cup [kind : {"errors"}, n : ErrorNumbers, digit : {TRUE}, plural : BOOLEAN]
    \cup [kind : {"errors"}, n : {1}, digit : {FALSE}, plural : BOOLEAN]
    \cup [kind : {"diagnostic"}, n : {0}, digit : {FALSE}, plural : {FALSE}]
    \cup [kind : {"aborting", "quoted"}, n : {2}, digit : {TRUE}, plural : {TRUE}]

(***************************************************************************)
(* SpecCounts: the stderr of one subprocess has been captured; the output  *)
(* is stripped and the two counts are taken, as run_cargo_command does     *)
(* after process.wait().                                                   *)
(***************************************************************************)
\* number of lines of a captured stderr
MaxLines == 3

count_warnings(bytes) == sum(warning_counts(strip(bytes)))
count_errors(bytes) == sum(error_counts(strip(bytes)))

InitCounts ==
    /\ features = {} /\ optional_deps = {} /\ doc = AbsentDoc /\ config = DefaultConfig
    /\ warnings = <<>> /\ combinations = <<>> /\ matrix = <<>> /\ matrix_len = 0
    /\ err = "none"
    /\ pc = "captured"
    /\ options = DefaultOptions
    /\ packages = <<>> /\ package_idx = 0 /\ features_idx = 1 /\ spawned = <<>>
    /\ \E n \in 0..MaxLines : reports \in [1..n -> ReportLines]
    /\ \E colored \in BOOLEAN : colored_output = render(reports, colored)
    /\ counts = [warnings |-> 0, errors |-> 0]
    /\ summary = <<>> /\ printed = None /\ exit_code = None
    /\ metadata = NoMetadata
    /\ ArgsIdle /\ TeeIdle

\* let num_warnings = warning_counts(&output).sum(); let num_errors = ...
CountOutput ==
    /\ pc = "captured"
    /\ counts' = [ warnings |-> count_warnings(colored_output),
                   errors   |-> count_errors(colored_output) ]
    /\ pc' = "counted"
    /\ UNCHANGED <<features, optional_deps, doc, config, warnings, combinations, matrix,
                   matrix_len, err>>
    /\ UNCHANGED <<options, packages, package_idx, features_idx, spawned, reports,
                   colored_output, summary, printed, exit_code>>
    /\ UNCHANGED <<metadata, argvars, teevars>>

NextCounts == CountOutput

SpecCounts == InitCounts /\ [][NextCounts]_vars

(***************************************************************************)
(* SpecRun: run_cargo_command over a list of packages, and print_summary.  *)
(* A step ends where the code waits for the subprocess: at every read of   *)
(* its stderr pipe (io::copy) and at process.wait().  stdout holds what    *)
(* was written to the standard output: a "cmd" entry for the line of       *)
(* print_package_cmd, one "stderr" entry per byte of the subprocess's      *)
(* stderr, a "summary" entry for print_summary.  Writes to the standard    *)
(* output are taken to succeed.                                            *)
(***************************************************************************)
\* number of subprocesses one invocation spawns at most
MaxRuns == 2

\* the feature names and the package names of the packages that are run
RunNames == {"A", "B"}
PackageNames == <<"p1", "p2", "p3", "p4", "p5", "p6">>

\* ExitStatus::code() of a subprocess: None when a signal ended it
ExitStatuses == {Some(0), Some(1), Some(101), None}

\* ExitStatus::success()
success(exit_status) == exit_status = Some(0)

\* Option::unwrap_or
unwrap_or(option, default) == IF option = None THEN default ELSE option[1]

\* what the subprocesses of a run write: nothing, one warning, two errors
RunReports ==
    { <<>>,
      << [kind |-> "diagnostic", n |-> 0, digit |-> FALSE, plural |-> FALSE],
         [kind |-> "warnings", n |-> 1, digit |-> TRUE, plural |-> FALSE] >>,
      << [kind |-> "errors", n |-> 2, digit |-> TRUE, plural |-> TRUE] >> }

\* the classification of one run, with warnings counted as failures whatever
\* the pedantic flag says
PedanticAlways(opts, exit_status, num_warnings, num_errors) ==
    ~ (~ success(exit_status) \/ num_errors > 0 \/ num_warnings > 0)

\* let pedantic_success = !(fail || pedantic_fail);
pedantic_success(opts, exit_status, num_warnings, num_errors) ==
    LET has_errors == num_errors > 0
        has_warnings == num_warnings > 0
        fail == ~ success(exit_status)
        pedantic_fail == opts.pedantic /\ (has_errors \/ has_warnings)
    IN ~ (fail \/ pedantic_fail)

\* the Summary pushed for one run
Summary(package_name, feature_list, bytes, exit_status, opts) ==
    LET num_warnings == count_warnings(bytes)
        num_errors == count_errors(bytes)
    IN [ features         |-> feature_list,
         num_errors       |-> num_errors,
         num_warnings     |-> num_warnings,
         package_name     |-> package_name,
         exit_code        |-> exit_status,
         pedantic_success |-> pedantic_success(opts, exit_status, num_warnings, num_errors) ]

\* the fail-fast exit taken only when the subprocess itself failed
ExitsOnProcessFailure(opts, s) == opts.fail_fast /\ ~ success(s.exit_code)

\* if options.fail_fast && !pedantic_success { ... std::process::exit(..) }
exits_fast(opts, s) == opts.fail_fast /\ ~ s.pedantic_success

\* print_summary, the line it prints for one Summary
summary_line(s) ==
    [ token        |-> IF ~ s.pedantic_success THEN "FAIL"
                       ELSE IF s.num_warnings > 0 THEN "WARN" ELSE "PASS",
      package_name |-> s.package_name,
      num_errors   |-> s.num_errors,
      num_warnings |-> s.num_warnings,
      features     |-> s.features ]

summary_lines(outcomes) == [i \in 1..Len(outcomes) |-> summary_line(outcomes[i])]

\* print_summary, the loop over the summary: first_bad_exit_code is assigned the
\* exit_code of a failing Summary for as long as it is None
RECURSIVE first_bad_exit_code(_, _)
first_bad_exit_code(outcomes, acc) ==
    IF outcomes = <<>> THEN acc
    ELSE first_bad_exit_code(Tail(outcomes),
             IF ~ Head(outcomes).pedantic_success /\ acc = None
             THEN Head(outcomes).exit_code
             ELSE acc)

\* the packages of an invocation: their powersets hold at most MaxRuns FeatureSets
RECURSIVE TotalRuns(_)
TotalRuns(pkgs) ==
    IF pkgs = <<>> THEN 0
    ELSE powerset_len(Cardinality(Head(pkgs).features)) + TotalRuns(Tail(pkgs))

RunPackages(pkgs) ==
    \E n \in 0..MaxRuns :
        \E fs \in [1..n -> SUBSET RunNames], ds \in [1..n -> {AbsentDoc, MalformedDoc}] :
            /\ pkgs = [i \in 1..n |-> [name |-> PackageNames[i], features |-> fs[i],
                                       doc |-> ds[i]]]
            /\ TotalRuns(pkgs) <= MaxRuns

InitRun ==
    /\ features = {} /\ optional_deps = {} /\ doc = AbsentDoc /\ config = DefaultConfig
    /\ warnings = <<>> /\ combinations = <<>> /\ matrix = <<>> /\ matrix_len = 0
    /\ err = "none"
    /\ pc = "run"
    /\ options \in [pedantic : BOOLEAN, fail_fast : BOOLEAN, silent : {FALSE}]
    /\ RunPackages(packages)
    /\ package_idx = 0 /\ features_idx = 1 /\ spawned = <<>>
    /\ reports = <<>> /\ colored_output = <<>>
    /\ counts = [warnings |-> 0, errors |-> 0]
    /\ summary = <<>> /\ printed = None /\ exit_code = None
    /\ metadata = NoMetadata
    /\ ArgsIdle /\ TeeIdle

\* for package in packages { let config = package.config()?;  the error of a
\* malformed document is returned from run_cargo_command, and main exits with 1
\*     for features in package.feature_combinations(&config) {
NextPackage ==
    /\ pc = "run"
    /\ features_idx > Len(combinations)
    /\ package_idx < Len(packages)
    /\ package_idx' = package_idx + 1
    /\ doc' = packages[package_idx'].doc
    /\ IF config_is_err(doc')
       THEN /\ err' = "config"
            /\ exit_code' = Some(1)
            /\ pc' = "exited"
            /\ UNCHANGED <<features, config, warnings, combinations, features_idx>>
       ELSE /\ features' = packages[package_idx'].features
            /\ config' = Package_config(doc')
            /\ warnings' = warnings \o config_warnings(doc')
            /\ combinations' = feature_combinations(features', config')
            /\ features_idx' = 1
            /\ UNCHANGED <<err, exit_code, pc>>
    /\ UNCHANGED <<optional_deps, matrix, matrix_len>>
    /\ UNCHANGED <<options, packages, spawned, reports, colored_output, counts, summary,
                   printed>>
    /\ UNCHANGED <<metadata, argvars, teevars>>

\* the most bytes one read of the pipe returns
MaxChunk == 2

\* the stdout entries of a sequence of bytes
stderr_entries(bytes) == [i \in 1..Len(bytes) |-> [kind |-> "stderr", data |-> <<bytes[i]>>]]

\* print_package_cmd, the entry of the line it prints
cmd_entry(package, feature_list) == [kind |-> "cmd", data |-> <<package.name>> \o feature_list]

\* the standard output is line buffered: what is written up to the last newline is
\* passed on at once, the rest at the next flush.  The lines of print_package_cmd
\* and of print_summary end with println!
line_flushed(output, flushed_before) ==
    LET ends_line(e) == e.kind \in {"cmd", "summary"} \/ e.data = <<"\n">>
        lines == {i \in 1..Len(output) : ends_line(output[i])}
        last == IF lines = {} THEN 0 ELSE CHOOSE i \in lines : \A k \in lines : k <= i
    IN IF last > flushed_before THEN last ELSE flushed_before

\* the tee writing only the first byte of every chunk to its output
TeeWritesFirstByte(output, out) == output \o stderr_entries(SubSeq(out, 1, 1))

\* tee::Reader::read: self.output.write_all(out)?
tee_write(output, out) == output \o stderr_entries(out)

\* tee::Reader::read: if self.force_flush { self.output.flush()?; }
tee_flush(output, flushed_before, force_flush) ==
    IF force_flush THEN Len(output) ELSE flushed_before

\* the fail-fast exit leaving the captured bytes unwritten
AbortDropsCaptured(output, captured, silent) == output

\* if options.silent { io::copy(&mut io::Cursor::new(colored_output.into_inner()),
\* &mut stdout)?; stdout.flush().ok(); }
abort_output(output, captured, silent) ==
    IF silent THEN output \o stderr_entries(captured) ELSE output

\* print_package_cmd(..); cmd.spawn()?; the empty output buffer.  The subprocess
\* runs from here on; lines is what it is going to write to its stderr
Spawn ==
    /\ pc = "run"
    /\ features_idx <= Len(combinations)
    /\ \E lines \in RunReports :
         /\ reports' = lines
         /\ proc_stderr' = render(lines, TRUE)
    /\ stdout' = Append(stdout, cmd_entry(packages[package_idx], combinations[features_idx]))
    /\ flushed' = line_flushed(stdout', flushed)
    /\ spawned' = Append(spawned, <<packages[package_idx].name, combinations[features_idx]>>)
    /\ colored_output' = <<>>
    /\ buf' = None
    /\ pc' = "streaming"
    /\ UNCHANGED <<features, optional_deps, doc, config, warnings, combinations, matrix,
                   matrix_len, err>>
    /\ UNCHANGED <<options, packages, package_idx, features_idx, counts, summary, printed,
                   exit_code>>
    /\ UNCHANGED <<metadata, argvars>>

\* the manifest has no parent directory (eyre::bail! before anything is printed), or
\* cmd.spawn()? fails after print_package_cmd: the error is returned before a
\* subprocess exists, and main exits with 1
SpawnFails ==
    /\ pc = "run"
    /\ features_idx <= Len(combinations)
    /\ \/ UNCHANGED <<stdout, flushed>>
       \/ /\ stdout' = Append(stdout, cmd_entry(packages[package_idx],
                                                combinations[features_idx]))
          /\ flushed' = line_flushed(stdout', flushed)
    /\ err' = "spawn"
    /\ exit_code' = Some(1)
    /\ pc' = "exited"
    /\ UNCHANGED <<features, optional_deps, doc, config, warnings, combinations, matrix,
                   matrix_len>>
    /\ UNCHANGED <<options, packages, package_idx, features_idx, spawned, reports,
                   colored_output, counts, summary, printed>>
    /\ UNCHANGED <<metadata, argvars, proc_stderr, buf>>

\* io::copy, one read of its loop that returns n > 0 bytes: from the pipe in silent
\* mode, through tee::Reader::read otherwise
Read ==
    /\ pc = "streaming"
    /\ buf = None
    /\ proc_stderr # <<>>
    /\ \E n \in 1..MaxChunk :
         /\ n <= Len(proc_stderr)
         /\ buf' = Some(SubSeq(proc_stderr, 1, n))
         /\ proc_stderr' = SubSeq(proc_stderr, n + 1, Len(proc_stderr))
         /\ IF options.silent
            THEN UNCHANGED <<stdout, flushed>>
            ELSE /\ stdout' = tee_write(stdout, SubSeq(proc_stderr, 1, n))
                 /\ flushed' = tee_flush(stdout', line_flushed(stdout', flushed), TRUE)
    /\ UNCHANGED enginevars
    /\ UNCHANGED <<runvars, metadata, argvars>>

\* io::copy, the write of the chunk it read to colored_output
CopyWrite ==
    /\ pc = "streaming"
    /\ buf # None
    /\ colored_output' = colored_output \o buf[1]
    /\ buf' = None
    /\ UNCHANGED enginevars
    /\ UNCHANGED <<options, packages, package_idx, features_idx, spawned, reports, counts,
                   summary, printed, exit_code>>
    /\ UNCHANGED <<metadata, argvars, proc_stderr, stdout, flushed>>

\* io::copy, the read at the end of the stream: it returns 0, through
\* tee::Reader::read (which flushes its output) unless in silent mode; io::copy
\* returns and process.wait() is called
EndOfStream ==
    /\ pc = "streaming"
    /\ buf = None
    /\ proc_stderr = <<>>
    /\ flushed' = IF options.silent THEN flushed ELSE tee_flush(stdout, flushed, TRUE)
    /\ pc' = "waiting"
    /\ UNCHANGED <<features, optional_deps, doc, config, warnings, combinations, matrix,
                   matrix_len, err>>
    /\ UNCHANGED <<runvars, metadata, argvars, proc_stderr, buf, stdout>>

\* a read of the pipe fails: io::copy(..)? returns the error, main exits with 1
StreamFails ==
    /\ pc = "streaming"
    /\ buf = None
    /\ err' = "io"
    /\ exit_code' = Some(1)
    /\ pc' = "exited"
    /\ UNCHANGED <<features, optional_deps, doc, config, warnings, combinations, matrix,
                   matrix_len>>
    /\ UNCHANGED <<options, packages, package_idx, features_idx, spawned, reports,
                   colored_output, counts, summary, printed>>
    /\ UNCHANGED <<metadata, argvars, teevars>>

\* process.wait()? fails: the error is returned, main exits with 1
WaitFails ==
    /\ pc = "waiting"
    /\ err' = "wait"
    /\ exit_code' = Some(1)
    /\ pc' = "exited"
    /\ UNCHANGED <<features, optional_deps, doc, config, warnings, combinations, matrix,
                   matrix_len>>
    /\ UNCHANGED <<options, packages, package_idx, features_idx, spawned, reports,
                   colored_output, counts, summary, printed>>
    /\ UNCHANGED <<metadata, argvars, teevars>>

\* process.wait() returns, with a failing run attempted again instead of the loop
\* moving on to the next combination
ClassifyRetry ==
    /\ pc = "waiting"
    /\ \E exit_status \in ExitStatuses :
        \E s \in { Summary(packages[package_idx].name, combinations[features_idx],
                           colored_output, exit_status, options) } :
           /\ counts' = [warnings |-> s.num_warnings, errors |-> s.num_errors]
           /\ summary' = Append(summary, s)
           /\ IF exits_fast(options, s)
              THEN /\ \E written \in {abort_output(stdout, colored_output, options.silent)} :
                        /\ stdout' = Append(written, [kind |-> "summary", data |-> <<>>])
                        /\ flushed' = line_flushed(stdout', IF options.silent
                                                             THEN Len(written) ELSE flushed)
                   /\ printed' = Some(summary_lines(summary'))
                   /\ \E bad \in {first_bad_exit_code(summary', None)} :
                        exit_code' = IF bad # None THEN bad
                                     ELSE Some(unwrap_or(exit_status, 1))
                   /\ pc' = "exited"
                   /\ UNCHANGED features_idx
              ELSE /\ features_idx' = IF s.pedantic_success \/ Len(spawned) >= MaxRuns
                                      THEN features_idx + 1 ELSE features_idx
                   /\ pc' = "run"
                   /\ UNCHANGED <<printed, exit_code, stdout, flushed>>
    /\ UNCHANGED <<features, optional_deps, doc, config, warnings, combinations, matrix,
                   matrix_len, err>>
    /\ UNCHANGED <<options, packages, package_idx, spawned, reports, colored_output>>
    /\ UNCHANGED <<metadata, argvars, proc_stderr, buf>>

\* process.wait() returns: the output is counted and the Summary pushed; with
\* fail_fast and a failing Summary the captured bytes are written in silent mode,
\* the summary is printed and the process exits
Classify ==
    /\ pc = "waiting"
    /\ \E exit_status \in ExitStatuses :
        \E s \in { Summary(packages[package_idx].name, combinations[features_idx],
                           colored_output, exit_status, options) } :
           /\ counts' = [warnings |-> s.num_warnings, errors |-> s.num_errors]
           /\ summary' = Append(summary, s)
           /\ IF exits_fast(options, s)
              THEN /\ \E written \in {abort_output(stdout, colored_output, options.silent)} :
                        /\ stdout' = Append(written, [kind |-> "summary", data |-> <<>>])
                        /\ flushed' = line_flushed(stdout', IF options.silent
                                                             THEN Len(written) ELSE flushed)
                   /\ printed' = Some(summary_lines(summary'))
                   /\ \E bad \in {first_bad_exit_code(summary', None)} :
                        exit_code' = IF bad # None THEN bad
                                     ELSE Some(unwrap_or(exit_status, 1))
                   /\ pc' = "exited"
                   /\ UNCHANGED features_idx
              ELSE /\ features_idx' = features_idx + 1
                   /\ pc' = "run"
                   /\ UNCHANGED <<printed, exit_code, stdout, flushed>>
    /\ UNCHANGED <<features, optional_deps, doc, config, warnings, combinations, matrix,
                   matrix_len, err>>
    /\ UNCHANGED <<options, packages, package_idx, spawned, reports, colored_output>>
    /\ UNCHANGED <<metadata, argvars, proc_stderr, buf>>

\* after the loops: print_summary(summary, stdout, ..), which exits with the first
\* bad exit code when there is one; otherwise Ok(()) is returned and main exits with 0
PrintSummary ==
    /\ pc = "run"
    /\ features_idx > Len(combinations)
    /\ package_idx = Len(packages)
    /\ stdout' = Append(stdout, [kind |-> "summary", data |-> <<>>])
    /\ flushed' = line_flushed(stdout', flushed)
    /\ printed' = Some(summary_lines(summary))
    /\ \E bad \in {first_bad_exit_code(summary, None)} :
         exit_code' = IF bad # None THEN bad ELSE Some(0)
    /\ pc' = "exited"
    /\ UNCHANGED <<features, optional_deps, doc, config, warnings, combinations, matrix,
                   matrix_len, err>>
    /\ UNCHANGED <<options, packages, package_idx, features_idx, spawned, reports,
                   colored_output, counts, summary>>
    /\ UNCHANGED <<metadata, argvars, proc_stderr, buf>>

NextRun ==
    \/ NextPackage \/ Spawn \/ SpawnFails \/ Read \/ CopyWrite \/ EndOfStream
    \/ StreamFails \/ WaitFails \/ Classify \/ PrintSummary

SpecRun == InitRun /\ [][NextRun]_vars

(***************************************************************************)
(* SpecWorkspace: Workspace::packages_for_fc on the metadata of a          *)
(* workspace.  metadata.packages are all packages cargo reported, in its   *)
(* order; workspace_members names those of the workspace; root is the      *)
(* package of the workspace root manifest, if it has one; a package's      *)
(* nested flag says that its metadata holds a "workspace" table with       *)
(* exclude_packages values for this tool.                                  *)
(***************************************************************************)
\* number of packages cargo reports
MaxPackages == 3

\* Metadata::workspace_packages: the members, in the order of metadata.packages
workspace_packages(md) ==
    SelectSeq(md.packages, LAMBDA p : p.name \in md.workspace_members)

\* Metadata::root_package
root_package(md) ==
    IF md.root = None THEN None
    ELSE Some(CHOOSE p \in ToSet(md.packages) : p.name = md.root[1])

\* Workspace::workspace_config: WorkspaceConfig, default when the key is absent
workspace_config(md) ==
    [ exclude_packages |-> Field(md.workspace_metadata.table, "exclude_packages", {}) ]

\* only the workspace metadata filters, the root package's exclude_packages is not read
WorkspaceConfigOnly(md) ==
    SelectSeq(workspace_packages(md),
              LAMBDA p : p.name \notin workspace_config(md).exclude_packages)

\* Workspace::packages_for_fc, the packages it returns
packages_for_fc(md) ==
    LET retained == SelectSeq(workspace_packages(md),
                              LAMBDA p : p.name \notin workspace_config(md).exclude_packages)
    IN IF root_package(md) = None THEN retained
       ELSE SelectSeq(retained,
                      LAMBDA p : p.name \notin
                                   Package_config(root_package(md)[1].doc).exclude_packages)

\* the warnings printed for one package that is not the root package
RECURSIVE non_root_warnings(_, _)
non_root_warnings(pkgs, root_name) ==
    IF pkgs = <<>> THEN <<>>
    ELSE LET package == Head(pkgs)
         IN (IF package.name = root_name THEN <<>>
             ELSE (IF /\ package.doc.kind # "absent"
                      /\ from_value(package.doc.table).exclude_packages # {}
                   THEN << <<"exclude_packages has no effect", package.name>> >>
                   ELSE <<>>)
                  \o (IF package.nested
                      THEN << <<"workspace exclude_packages has no effect", package.name>> >>
                      ELSE <<>>))
            \o non_root_warnings(Tail(pkgs), root_name)

\* Workspace::packages_for_fc, the warnings it prints
packages_for_fc_warnings(md) ==
    IF root_package(md) = None THEN <<>>
    ELSE LET root == root_package(md)[1]
         IN config_warnings(root.doc)
            \o (IF Package_config(root.doc).exclude_packages # {}
                THEN << <<"exclude_packages is deprecated", root.name>> >>
                ELSE <<>>)
            \o non_root_warnings(md.packages, root.name)

\* the bounded workspaces: up to MaxPackages packages, the first of them members,
\* and at most MaxItems exclude_packages entries and nested tables in all manifests.
\* An item e is: the workspace excludes package e (1..n); package i excludes package
\* j (n + 1..n + n*n); package i has the nested table (beyond).
BoundedMetadata(md) ==
    \E n \in 0..MaxPackages, k \in 0..MaxItems :
        \E members \in 0..n, picks \in [1..k -> 1..(2 * n + n * n)] :
            /\ \A a \in 1..(k - 1) : picks[a] < picks[a + 1]
            /\ \E root \in {None} \cup {Some(PackageNames[i]) : i \in 1..members} :
                LET items == {picks[a] : a \in 1..k}
                    excluded_by(i) ==
                        {PackageNames[j] : j \in {b \in 1..n : n + (i - 1) * n + b \in items}}
                    package(i) ==
                        [ name     |-> PackageNames[i],
                          features |-> {},
                          doc      |-> IF excluded_by(i) = {} THEN AbsentDoc
                                       ELSE [ kind  |-> "table",
                                              table |-> [exclude_packages |-> excluded_by(i)] ],
                          nested   |-> (n + n * n + i) \in items ]
                    excluded == {PackageNames[j] : j \in {b \in 1..n : b \in items}}
                IN md = [ packages           |-> [i \in 1..n |-> package(i)],
                          workspace_members  |-> {PackageNames[i] : i \in 1..members},
                          root               |-> root,
                          workspace_metadata |->
                              IF excluded = {} THEN AbsentDoc
                              ELSE [ kind  |-> "table",
                                     table |-> [exclude_packages |-> excluded] ] ]

InitWorkspace ==
    /\ features = {} /\ optional_deps = {} /\ doc = AbsentDoc /\ config = DefaultConfig
    /\ warnings = <<>> /\ combinations = <<>> /\ matrix = <<>> /\ matrix_len = 0
    /\ err = "none"
    /\ pc = "metadata"
    /\ options = DefaultOptions
    /\ packages = <<>> /\ package_idx = 0 /\ features_idx = 1 /\ spawned = <<>>
    /\ reports = <<>> /\ colored_output = <<>>
    /\ counts = [warnings |-> 0, errors |-> 0]
    /\ summary = <<>> /\ printed = None /\ exit_code = None
    /\ BoundedMetadata(metadata)
    /\ ArgsIdle /\ TeeIdle

\* let mut packages = metadata.packages_for_fc()?;
PackagesForFc ==
    /\ pc = "metadata"
    /\ packages' = packages_for_fc(metadata)
    /\ warnings' = warnings \o packages_for_fc_warnings(metadata)
    /\ pc' = "packages"
    /\ UNCHANGED <<features, optional_deps, doc, config, combinations, matrix, matrix_len,
                   err>>
    /\ UNCHANGED <<options, package_idx, features_idx, spawned, reports, colored_output,
                   counts, summary, printed, exit_code, metadata>>
    /\ UNCHANGED <<argvars, teevars>>

NextWorkspace == PackagesForFc

SpecWorkspace == InitWorkspace /\ [][NextWorkspace]_vars

(***************************************************************************)
(* SpecParse: parse_arguments on a command line.  An argument is the       *)
(* sequence of its pieces: <<"-p">> is `-p`, <<"-p", "=", "x">> is `-p=x`. *)
(* No piece is a prefix of another one, so that a comparison of pieces is  *)
(* a comparison of the strings.  Spans hold the 0-based indices of         *)
(* RangeInclusive<usize>.                                                  *)
(***************************************************************************)
\* the longest command line
MaxArgs == 3

ArgWords == {"-p", "x", "--silent", "--", "check", "--color", "--manifest-path"}
ArgTokens == {<<w>> : w \in ArgWords} \cup {<<"-p", "=", "x">>}
BoundedArgs == UNION {[1..n -> ArgTokens] : n \in 0..MaxArgs}

\* key.starts_with(&format!("{arg}="))
starts_with(key, arg) == Len(key) >= 2 /\ key[1] = arg /\ key[2] = "="

\* key.trim_start_matches(&format!("{arg}=")): every leading repetition is removed
RECURSIVE trim_start_matches(_, _)
trim_start_matches(key, arg) ==
    IF starts_with(key, arg) THEN trim_start_matches(SubSeq(key, 3, Len(key)), arg)
    ELSE key

\* Vec::reverse
RECURSIVE reverse(_)
reverse(v) == IF v = <<>> THEN <<>> ELSE Append(reverse(Tail(v)), Head(v))

\* ArgumentParser::get_all, its loop from index idx on: the matches in index order
RECURSIVE get_all_from(_, _, _, _)
get_all_from(v, arg, has_value, idx) ==
    IF idx >= Len(v) THEN <<>>
    ELSE LET key == v[idx + 1]
             m == IF key = <<arg>> /\ has_value /\ idx + 1 < Len(v)
                  THEN << [lo |-> idx, hi |-> idx + 1, value |-> v[idx + 2]] >>
                  ELSE IF key = <<arg>> /\ ~ has_value
                  THEN << [lo |-> idx, hi |-> idx, value |-> key] >>
                  ELSE IF starts_with(key, arg)
                  THEN << [lo |-> idx, hi |-> idx, value |-> trim_start_matches(key, arg)] >>
                  ELSE <<>>
         IN m \o get_all_from(v, arg, has_value, idx + 1)

\* ArgumentParser::get_all: matched.reverse(); matched
get_all(v, arg, has_value) == reverse(get_all_from(v, arg, has_value, 0))

\* Vec::drain(span) panics when the end of the range is beyond the vector
drain_panics(v, span) == span.hi + 1 > Len(v)

\* Vec::drain(span), dropped at once: the elements of the range are removed
drain(v, span) == SubSeq(v, 1, span.lo) \o SubSeq(v, span.hi + 2, Len(v))

\* the flags parse_arguments looks up, in its order, with their has_value
ParseFlags ==
    << [flag |-> "--manifest-path", has_value |-> TRUE],
       [flag |-> "--package", has_value |-> TRUE],
       [flag |-> "-p", has_value |-> TRUE],
       [flag |-> "--exclude-package", has_value |-> TRUE],
       [flag |-> "--only-packages-with-lib-target", has_value |-> FALSE],
       [flag |-> "matrix", has_value |-> FALSE],
       [flag |-> "--pretty", has_value |-> FALSE],
       [flag |-> "--help", has_value |-> FALSE],
       [flag |-> "--version", has_value |-> FALSE],
       [flag |-> "version", has_value |-> FALSE],
       [flag |-> "--pedantic", has_value |-> FALSE],
       [flag |-> "--errors-only", has_value |-> FALSE],
       [flag |-> "--packages-only", has_value |-> FALSE],
       [flag |-> "--silent", has_value |-> FALSE],
       [flag |-> "--fail-fast", has_value |-> FALSE] >>

\* the bodies of the loops of parse_arguments, without the drain
set_option(o, flag, value) ==
    CASE flag = "--manifest-path" -> [o EXCEPT !.manifest_path = Some(value)]
      [] flag \in {"--package", "-p"} -> [o EXCEPT !.packages = @ \cup {value}]
      [] flag = "--exclude-package" -> [o EXCEPT !.exclude_packages = @ \cup {value}]
      [] flag = "matrix" -> [o EXCEPT !.command = Some([name |-> "matrix", pretty |-> FALSE])]
      [] flag = "--pretty" ->
            IF o.command # None /\ o.command[1].name = "matrix"
            THEN [o EXCEPT !.command = Some([name |-> "matrix", pretty |-> TRUE])]
            ELSE o
      [] flag = "--help" -> [o EXCEPT !.command = Some([name |-> "help", pretty |-> FALSE])]
      [] flag \in {"--version", "version"} ->
            [o EXCEPT !.command = Some([name |-> "version", pretty |-> FALSE])]
      [] OTHER -> [o EXCEPT !.switches = @ \cup {flag}]

InitParse ==
    /\ features = {} /\ optional_deps = {} /\ doc = AbsentDoc /\ config = DefaultConfig
    /\ warnings = <<>> /\ combinations = <<>> /\ matrix = <<>> /\ matrix_len = 0
    /\ err = "none"
    /\ pc = "parse"
    /\ options = DefaultOptions /\ packages = <<>>
    /\ package_idx = 0 /\ features_idx = 1 /\ spawned = <<>>
    /\ reports = <<>> /\ colored_output = <<>>
    /\ counts = [warnings |-> 0, errors |-> 0]
    /\ summary = <<>> /\ printed = None /\ exit_code = None
    /\ metadata = NoMetadata
    /\ args \in BoundedArgs
    /\ matched = <<>> /\ flag_idx = 0 /\ cli = DefaultCli
    /\ cargo_args = <<>> /\ split_args = None /\ argv = None
    /\ TeeIdle

\* for (span, ..) in args.get_all(flag, has_value) {: the call of get_all
GetAll ==
    /\ pc = "parse"
    /\ matched = <<>>
    /\ flag_idx < Len(ParseFlags)
    /\ flag_idx' = flag_idx + 1
    /\ matched' = get_all(args, ParseFlags[flag_idx'].flag, ParseFlags[flag_idx'].has_value)
    /\ UNCHANGED <<args, cli, cargo_args, split_args, argv>>
    /\ UNCHANGED <<enginevars, runvars, metadata, teevars>>

\* one iteration of the loop: the option is set, then args.drain(span); a
\* manifest path that can not be canonicalized is an error, a span beyond the
\* vector a panic (exit code 101)
Drain ==
    /\ pc = "parse"
    /\ matched # <<>>
    /\ LET flag == ParseFlags[flag_idx].flag
           span == Head(matched)
       IN \/ /\ flag = "--manifest-path"
             /\ err' = "manifest"
             /\ exit_code' = Some(1)
             /\ pc' = "exited"
             /\ UNCHANGED <<args, matched, cli>>
          \/ /\ cli' = set_option(cli, flag, span.value)
             /\ IF drain_panics(args, span)
                THEN /\ err' = "panic"
                     /\ exit_code' = Some(101)
                     /\ pc' = "exited"
                     /\ UNCHANGED <<args, matched>>
                ELSE /\ args' = drain(args, span)
                     /\ matched' = Tail(matched)
                     /\ UNCHANGED <<err, exit_code, pc>>
    /\ UNCHANGED <<flag_idx, cargo_args, split_args, argv>>
    /\ UNCHANGED <<features, optional_deps, doc, config, warnings, combinations, matrix,
                   matrix_len>>
    /\ UNCHANGED <<options, packages, package_idx, features_idx, spawned, reports,
                   colored_output, counts, summary, printed>>
    /\ UNCHANGED <<metadata, teevars>>

\* Ok((options, args))
Parsed ==
    /\ pc = "parse"
    /\ matched = <<>>
    /\ flag_idx = Len(ParseFlags)
    /\ pc' = "parsed"
    /\ UNCHANGED <<features, optional_deps, doc, config, warnings, combinations, matrix,
                   matrix_len, err>>
    /\ UNCHANGED <<runvars, metadata, argvars, teevars>>

NextParse == GetAll \/ Drain \/ Parsed

SpecParse == InitParse /\ [][NextParse]_vars

(***************************************************************************)
(* SpecArgv: the argument vectors run_cargo_command builds for the         *)
(* combinations of one package from the arguments its caller passed.       *)
(***************************************************************************)
\* cargo_args.iter().position(|arg| *arg == "--").unwrap_or(cargo_args.len())
extra_args_idx(v) ==
    IF \E i \in 1..Len(v) : v[i] = <<"--">>
    THEN (CHOOSE i \in 1..Len(v) : v[i] = <<"--">> /\ \A j \in 1..(i - 1) : v[j] # <<"--">>) - 1
    ELSE Len(v)

\* the prologue of run_cargo_command: split_off at "--", missing_arguments, and
\* "--color always" unless cargo_args holds the argument "--color"
split_cargo_args(v) ==
    LET at == extra_args_idx(v)
        before == SubSeq(v, 1, at)
        extra_args == SubSeq(v, at + 1, Len(v))
    IN [ cargo_args        |-> IF \E i \in 1..Len(before) : before[i] = <<"--color">>
                               THEN before
                               ELSE before \o << <<"--color">>, <<"always">> >>,
         extra_args        |-> extra_args,
         missing_arguments |-> before = <<>> /\ extra_args = <<>> ]

\* format!("--features={}", &features.iter().join(","))
features_flag(feature_list) == <<"--features", "=">> \o join(feature_list, ",")

\* the args of one run with the two feature flags pushed after extra_args
BuildArgsFlagsLast(sp, feature_list) ==
    sp.cargo_args \o sp.extra_args
      \o (IF ~ sp.missing_arguments
          THEN << <<"--no-default-features">>, features_flag(feature_list) >>
          ELSE <<>>)

\* let mut args = cargo_args.clone(); if !missing_arguments { args.push(..);
\* args.push(..); } args.extend(extra_args.clone());
build_args(sp, feature_list) ==
    sp.cargo_args
      \o (IF ~ sp.missing_arguments
          THEN << <<"--no-default-features">>, features_flag(feature_list) >>
          ELSE <<>>)
      \o sp.extra_args

InitArgv ==
    /\ features = {} /\ optional_deps = {} /\ doc = AbsentDoc /\ config = DefaultConfig
    /\ warnings = <<>> /\ combinations = <<>> /\ matrix = <<>> /\ matrix_len = 0
    /\ err = "none"
    /\ pc = "args"
    /\ options = DefaultOptions
    /\ \E fs \in SUBSET RunNames :
         packages = << [name |-> PackageNames[1], features |-> fs, doc |-> AbsentDoc] >>
    /\ package_idx = 0 /\ features_idx = 1 /\ spawned = <<>>
    /\ reports = <<>> /\ colored_output = <<>>
    /\ counts = [warnings |-> 0, errors |-> 0]
    /\ summary = <<>> /\ printed = None /\ exit_code = None
    /\ metadata = NoMetadata
    /\ args = <<>> /\ matched = <<>> /\ flag_idx = 0 /\ cli = DefaultCli
    /\ cargo_args \in BoundedArgs
    /\ split_args = None /\ argv = None
    /\ TeeIdle

\* the statements of run_cargo_command before its loops
SplitArgs ==
    /\ pc = "args"
    /\ split_args' = Some(split_cargo_args(cargo_args))
    /\ pc' = "run"
    /\ UNCHANGED <<features, optional_deps, doc, config, warnings, combinations, matrix,
                   matrix_len, err>>
    /\ UNCHANGED <<args, matched, flag_idx, cli, cargo_args, argv>>
    /\ UNCHANGED <<runvars, metadata, teevars>>

\* the body of the inner loop up to cmd.args(args)
BuildArgs ==
    /\ pc = "run"
    /\ features_idx <= Len(combinations)
    /\ argv' = Some(build_args(split_args[1], combinations[features_idx]))
    /\ features_idx' = features_idx + 1
    /\ UNCHANGED enginevars
    /\ UNCHANGED <<options, packages, package_idx, spawned, reports, colored_output,
                   counts, summary, printed, exit_code>>
    /\ UNCHANGED <<args, matched, flag_idx, cli, cargo_args, split_args>>
    /\ UNCHANGED <<metadata, teevars>>

NextArgv == SplitArgs \/ NextPackage \/ BuildArgs

SpecArgv == InitArgv /\ [][NextArgv]_vars

(***************************************************************************)
(* SpecTee: run_cargo_command for one package with one or two             *)
(* combinations, in silent mode and not.                                   *)
(***************************************************************************)
InitTee ==
    /\ features = {} /\ optional_deps = {} /\ doc = AbsentDoc /\ config = DefaultConfig
    /\ warnings = <<>> /\ combinations = <<>> /\ matrix = <<>> /\ matrix_len = 0
    /\ err = "none"
    /\ pc = "run"
    /\ options \in [pedantic : BOOLEAN, fail_fast : BOOLEAN, silent : BOOLEAN]
    /\ \E fs \in {{}, {"A"}} :
         packages = << [name |-> PackageNames[1], features |-> fs, doc |-> AbsentDoc] >>
    /\ package_idx = 0 /\ features_idx = 1 /\ spawned = <<>>
    /\ reports = <<>> /\ colored_output = <<>>
    /\ counts = [warnings |-> 0, errors |-> 0]
    /\ summary = <<>> /\ printed = None /\ exit_code = None
    /\ metadata = NoMetadata
    /\ ArgsIdle /\ TeeIdle

SpecTee == InitTee /\ [][NextRun]_vars

(***************************************************************************)
(* The output of the engine read as FeatureSets.                           *)
(***************************************************************************)
\* the FeatureSets of the returned combinations
Out == {ToSet(combinations[i]) : i \in 1..Len(combinations)}

\* how often a FeatureSet occurs in the returned sequence
Occurrences(set) == Cardinality({i \in 1..Len(combinations) : ToSet(combinations[i]) = set})

\* the forced inclusions: include_feature_sets entries without the undeclared names
Forced ==
    { config.include_feature_sets[i] \cap features : i \in 1..Len(config.include_feature_sets) }

\* str::split(',') of a matrix row, as the integration tests read it back
split(row) == SelectSeq(row, LAMBDA token : token # ",")

\* the FeatureSets of the rows of the feature matrix
MatrixSets == {ToSet(split(matrix[i])) : i \in 1..Len(matrix)}

(***************************************************************************)
(* Claims on Package::feature_combinations (Spec).                         *)
(***************************************************************************)

\* C1: with the default Config, a package declaring the names S gets exactly 2^|S|
\* distinct FeatureSets, each a subset of S, the empty set and S among them.
C1_DefaultConfigPowerset ==
    (pc = "combined" /\ config = DefaultConfig) =>
        /\ Len(combinations) = 2 ^ Cardinality(features)
        /\ \A i, j \in 1..Len(combinations) :
             i # j => ToSet(combinations[i]) # ToSet(combinations[j])
        /\ \A set \in Out : set \subseteq features
        /\ {} \in Out
        /\ features \in Out

C1_Witness ==
    /\ pc = "combined"
    /\ config = DefaultConfig
    /\ Cardinality(features) >= 3
    /\ Len(combinations) > 4

\* C2: no returned FeatureSet contains an exclude_feature_sets entry, unless it
\* equals a forced inclusion.
C2_Exclusion ==
    pc = "combined" =>
        \A F \in Out : \A i \in 1..Len(config.exclude_feature_sets) :
            config.exclude_feature_sets[i] \subseteq F => F \in Forced

\* an entry {x, ...} removed a generated superset of it, and a forced inclusion
\* containing the same entry is returned all the same
C2_Witness ==
    /\ pc = "combined"
    /\ \E i \in 1..Len(config.exclude_feature_sets) :
        LET E == config.exclude_feature_sets[i]
        IN /\ E # {}
           /\ \E G \in base_powerset(features, config) : E \subseteq G /\ G \notin Out
           /\ \E F \in Out : E \subseteq F

\* C3: every include_feature_sets entry, without the names the package does not
\* declare, is returned exactly once, also when the exclusion filter or
\* exclude_features would remove it.
C3_ForcedInclusion ==
    pc = "combined" =>
        \A i \in 1..Len(config.include_feature_sets) :
            Occurrences(config.include_feature_sets[i] \cap features) = 1

\* an entry that loses an undeclared name and that the exclusion filter rejects
C3_Witness ==
    /\ pc = "combined"
    /\ \E i \in 1..Len(config.include_feature_sets) :
        LET I == config.include_feature_sets[i]
        IN /\ I \cap features # I
           /\ I \cap features # {}
           /\ contains_skip_set(I \cap features, config.exclude_feature_sets)

\* C4 as stated: in isolated mode every returned FeatureSet lies inside one isolated
\* group plus include_features.
C4_Original ==
    (pc = "combined" /\ config.isolated_feature_sets # <<>>) =>
        \A F \in Out : \E g \in 1..Len(config.isolated_feature_sets) :
            F \subseteq config.isolated_feature_sets[g] \cup config.include_features

\* C4 amended: in isolated mode every returned FeatureSet lies inside one isolated
\* group plus include_features, or equals a forced inclusion.
C4_IsolatedOrForced ==
    (pc = "combined" /\ config.isolated_feature_sets # <<>>) =>
        \A F \in Out :
            \/ F \in Forced
            \/ \E g \in 1..Len(config.isolated_feature_sets) :
                 F \subseteq config.isolated_feature_sets[g] \cup config.include_features

\* two disjoint groups that each contribute a non-empty FeatureSet
C4_Witness ==
    /\ pc = "combined"
    /\ Len(config.isolated_feature_sets) = 2
    /\ config.isolated_feature_sets[1] \cap config.isolated_feature_sets[2] = {}
    /\ \E F, G \in Out :
        /\ F # {} /\ F \subseteq config.isolated_feature_sets[1]
        /\ G # {} /\ G \subseteq config.isolated_feature_sets[2]

\* C5 as stated: {A,B,C,D} with isolated_feature_sets = [{A,B},{C,D}] gives the union
\* of the two powersets, 8 sets in total, none mixing A/B with C/D.
C5_Original ==
    (pc = "combined" /\ features = ScenarioFeatures /\ config = ScenarioConfig) =>
        /\ Out = (SUBSET {"A", "B"}) \cup (SUBSET {"C", "D"})
        /\ Len(combinations) = 8

\* C5 amended: the union of the two powersets, whose common empty set is returned
\* once: 7 sets in total, none mixing A/B with C/D.
C5_IsolatedScenario ==
    (pc = "combined" /\ features = ScenarioFeatures /\ config = ScenarioConfig) =>
        /\ Out = (SUBSET {"A", "B"}) \cup (SUBSET {"C", "D"})
        /\ Len(combinations) = 7
        /\ \A F \in Out : F \cap {"A", "B"} = {} \/ F \cap {"C", "D"} = {}

C5_Witness ==
    /\ pc = "combined"
    /\ features = ScenarioFeatures
    /\ config = ScenarioConfig
    /\ {"C", "D"} \in Out

\* C6: in isolated mode without exclude_feature_sets and include_feature_sets, the
\* returned FeatureSets are the union over the groups G of
\* { P \cup include_features : P \subseteq (G \cap declared) \ exclude_features },
\* each returned once.
C6_IsolatedUnion ==
    (/\ pc = "combined"
     /\ config.isolated_feature_sets # <<>>
     /\ config.exclude_feature_sets = <<>>
     /\ config.include_feature_sets = <<>>) =>
        /\ Out = UNION { { P \cup config.include_features :
                             P \in SUBSET ((config.isolated_feature_sets[g] \cap features)
                                             \ config.exclude_features) }
                         : g \in 1..Len(config.isolated_feature_sets) }
        /\ \A F \in Out : Occurrences(F) = 1

\* two different groups that share a declared name, one of them naming an
\* undeclared feature: FeatureSets other than the empty one coincide
C6_Witness ==
    /\ pc = "combined"
    /\ Len(config.isolated_feature_sets) = 2
    /\ config.exclude_feature_sets = <<>>
    /\ config.include_feature_sets = <<>>
    /\ config.isolated_feature_sets[1] # config.isolated_feature_sets[2]
    /\ config.isolated_feature_sets[1] \cap config.isolated_feature_sets[2] \cap features # {}
    /\ ~ (config.isolated_feature_sets[1] \subseteq features)
    /\ Len(combinations) > 2

(***************************************************************************)
(* Claims on Package::feature_matrix (SpecMany, SpecDoc).                  *)
(***************************************************************************)

\* C7: the feature matrix of a package declaring 25 independent features, with no
\* isolation configured, is the error "too many configurations".
C7_Original ==
    (/\ pc = "matrix"
     /\ Cardinality(features) = ManyFeatures
     /\ config = DefaultConfig) =>
        err = "too many configurations"

\* C8: when allow_feature_sets is configured (here: and nothing else is), the feature
\* matrix is exactly the listed sets without the names the package does not declare.
C8_Original ==
    (pc = "matrix" /\ DOMAIN doc.table = {"allow_feature_sets"}) =>
        MatrixSets = { doc.table.allow_feature_sets[i] \cap features :
                         i \in 1..Len(doc.table.allow_feature_sets) }

\* C9: when no_empty_feature_set = true is configured, the empty FeatureSet is not in
\* the feature matrix.
C9_Original ==
    (pc = "matrix" /\ Field(doc.table, "no_empty_feature_set", FALSE)) =>
        \A i \in 1..Len(matrix) : split(matrix[i]) # <<>>

\* C10: when skip_optional_dependencies = true is configured (with nothing else but
\* exclude_features), the feature matrix is the powerset of the declared names that
\* are neither implicit optional-dependency features nor excluded.
C10_Original ==
    (/\ pc = "matrix"
     /\ Field(doc.table, "skip_optional_dependencies", FALSE)
     /\ DOMAIN doc.table \subseteq {"skip_optional_dependencies", "exclude_features"}) =>
        MatrixSets = SUBSET ((features \ optional_deps)
                               \ Field(doc.table, "exclude_features", {}))

(***************************************************************************)
(* Claims on the order and the content of the returned sequence (Spec).    *)
(***************************************************************************)
\* a comes strictly before b in lexicographic order: at the first position where
\* they differ a has the smaller name, or a ends there and b goes on
LexBefore(a, b) ==
    \E k \in 1..(Len(a) + 1) :
        /\ k <= Len(b)
        /\ \A j \in 1..(k - 1) : a[j] = b[j]
        /\ k = Len(a) + 1 \/ Rank(a[k]) < Rank(b[k])

\* C11: the returned sequence holds no FeatureSet twice, the members of each
\* FeatureSet are in ascending order, and the sequence is sorted lexicographically
\* over those member lists, a proper prefix before its extensions (the empty set
\* first when present).
C11_SortedDistinct ==
    pc = "combined" =>
        /\ \A i, j \in 1..Len(combinations) :
             i # j => ToSet(combinations[i]) # ToSet(combinations[j])
        /\ \A i \in 1..Len(combinations) :
             \A k \in 1..(Len(combinations[i]) - 1) :
                Rank(combinations[i][k]) < Rank(combinations[i][k + 1])
        /\ \A i \in 1..(Len(combinations) - 1) :
             LexBefore(combinations[i], combinations[i + 1])
        /\ {} \in Out => combinations[1] = <<>>

\* a forced inclusion coincides with a generated FeatureSet, and a longer list
\* (A,B,C) sorts before a shorter one (A,C)
C11_Witness ==
    /\ pc = "combined"
    /\ \E i \in 1..Len(config.include_feature_sets) :
         config.include_feature_sets[i] \cap features \in base_powerset(features, config)
    /\ \E i \in 1..(Len(combinations) - 1) :
         /\ Len(combinations[i]) > Len(combinations[i + 1])
         /\ combinations[i + 1] # <<>>
    /\ combinations[1] = <<>>

\* C12 as stated: every returned FeatureSet contains every flag of include_features.
C12_Original ==
    pc = "combined" =>
        \A F \in Out : config.include_features \subseteq F

\* C12 amended: every returned FeatureSet that is not a forced inclusion contains
\* every flag of include_features, in global and in isolated mode.
C12_IncludePinned ==
    pc = "combined" =>
        \A F \in Out : F \in Forced \/ config.include_features \subseteq F

\* an include_features flag the package does not declare is in the generated
\* FeatureSets, next to a forced inclusion that does not hold it
C12_Witness ==
    /\ pc = "combined"
    /\ ~ (config.include_features \subseteq features)
    /\ \E F \in Out : F \notin Forced /\ F # config.include_features
    /\ \E F \in Out : F \in Forced /\ ~ (config.include_features \subseteq F)

\* C13 as stated: no returned FeatureSet contains a flag of exclude_features.
C13_Original ==
    pc = "combined" =>
        \A F \in Out : F \cap config.exclude_features = {}

\* C13 amended: a returned FeatureSet that is not a forced inclusion contains no
\* flag of exclude_features, other than the flags also listed in include_features.
C13_ExcludeOmitted ==
    pc = "combined" =>
        \A F \in Out :
            F \in Forced \/ F \cap config.exclude_features \subseteq config.include_features

\* a declared flag is excluded and the other declared flags are still combined
C13_Witness ==
    /\ pc = "combined"
    /\ config.exclude_features \cap features # {}
    /\ config.exclude_features \cap config.include_features = {}
    /\ \E F \in Out : F \notin Forced /\ F # {}
    /\ Len(combinations) >= 4

(***************************************************************************)
(* Claims on the counting of warnings and errors (SpecCounts).             *)
(***************************************************************************)
\* the sum of the numbers cargo wrote on its summary lines of one kind, 1 for a
\* line written without a number
RECURSIVE Reported(_, _)
Reported(lines, kind) ==
    IF lines = <<>> THEN 0
    ELSE (IF Head(lines).kind = kind
          THEN (IF Head(lines).digit THEN Head(lines).n ELSE 1)
          ELSE 0)
         + Reported(Tail(lines), kind)

\* C18: warning_count is the sum of N over the "generated N warning(s)" summary lines
\* of the captured stderr, escape sequences or not, and error_count the sum of N over
\* its "could not compile ... due to N previous error(s)" lines, a line without a
\* number counting 1; lines with 6 and 7 warnings and one with 2 errors give 13 and 2.
C18_Counts ==
    pc = "counted" =>
        /\ counts.warnings = Reported(reports, "warnings")
        /\ counts.errors = Reported(reports, "errors")

\* colored output with the lines "generated 6 warnings", "generated 7 warnings" and
\* "due to 2 previous errors": 13 warnings and 2 errors
C18_Witness ==
    /\ pc = "counted"
    /\ \E i \in 1..Len(colored_output) : colored_output[i] = Esc
    /\ {reports[i] : i \in 1..Len(reports)} =
         { [kind |-> "warnings", n |-> 6, digit |-> TRUE, plural |-> TRUE],
           [kind |-> "warnings", n |-> 7, digit |-> TRUE, plural |-> TRUE],
           [kind |-> "errors", n |-> 2, digit |-> TRUE, plural |-> TRUE] }
    /\ counts = [warnings |-> 13, errors |-> 2]

(***************************************************************************)
(* Claims on run_cargo_command and print_summary (SpecRun).                *)
(***************************************************************************)
\* the positions of the failing outcomes in the summary
Failing == {i \in 1..Len(summary) : ~ summary[i].pedantic_success}

\* the first failing outcome in iteration order
FirstFailing == summary[CHOOSE i \in Failing : \A j \in Failing : i <= j]

\* C14: when no tool-internal error ends the invocation, the process exit code is 0 if
\* every outcome is pedantic-success; otherwise it is the exit code of the first
\* non-pedantic-success outcome in iteration order, or 1 if that outcome has no exit
\* code, with and without fail-fast.
C14_Original ==
    (pc = "exited" /\ err = "none") =>
        exit_code = IF Failing = {} THEN Some(0)
                    ELSE Some(unwrap_or(FirstFailing.exit_code, 1))

\* C15: when no tool-internal error ends the invocation and at least one recorded
\* outcome is failing, the process exit code is not 0.
C15_Original ==
    (pc = "exited" /\ err = "none" /\ Failing # {}) => exit_code # Some(0)

\* C16: with fail-fast, once an outcome is failing the invocation has terminated: that
\* outcome is the last one recorded, no subprocess was spawned after it, and the
\* summary printed holds exactly the outcomes up to and including it.
C16_FailFast ==
    (options.fail_fast /\ Failing # {}) =>
        /\ pc = "exited"
        /\ Failing = {Len(summary)}
        /\ Len(spawned) = Len(summary)
        /\ \A i \in 1..Len(summary) :
             spawned[i] = <<summary[i].package_name, summary[i].features>>
        /\ printed = Some(summary_lines(summary))
        /\ exit_code # None

\* a pedantic failure (exit status 0, warnings) ends the invocation on its first
\* run, with a combination of the package or another package still to run
C16_Witness ==
    /\ pc = "exited"
    /\ options.fail_fast
    /\ Failing # {}
    /\ summary[Len(summary)].exit_code = Some(0)
    /\ Len(spawned) = 1
    /\ features_idx < Len(combinations) \/ package_idx < Len(packages)

\* C17: every recorded pedantic_success equals NOT(fail OR pedantic_fail), with
\* fail = the exit status is not success and pedantic_fail = pedantic mode AND
\* (error_count > 0 OR warning_count > 0); for the last run the counts are those of
\* the summary lines its subprocess wrote.
C17_PedanticSuccess ==
    /\ \A i \in 1..Len(summary) :
         summary[i].pedantic_success =
            ~ (\/ summary[i].exit_code # Some(0)
               \/ options.pedantic /\ (summary[i].num_errors > 0 \/ summary[i].num_warnings > 0))
    /\ (summary # <<>> /\ Len(summary) = Len(spawned)) =>
         summary[Len(summary)].pedantic_success =
            (/\ summary[Len(summary)].exit_code = Some(0)
             /\ options.pedantic =>
                  (Reported(reports, "warnings") = 0 /\ Reported(reports, "errors") = 0))

\* a run with a warning and exit status 0 that is not failing without pedantic mode
C17_Witness ==
    /\ ~ options.pedantic
    /\ \E i \in 1..Len(summary) :
         /\ summary[i].num_warnings > 0
         /\ summary[i].exit_code = Some(0)
         /\ summary[i].pedantic_success
    /\ \E i \in 1..Len(summary) :
         summary[i].exit_code = None /\ ~ summary[i].pedantic_success

(***************************************************************************)
(* Claims on Package::config (SpecConfig).                                 *)
(***************************************************************************)
\* the deprecated keys whose value in the document is not empty
NonEmptyDeprecated ==
    {k \in {"skip_feature_sets", "exact_combinations"} : Field(doc.table, k, <<>>) # <<>>}
    \cup {k \in {"denylist"} : Field(doc.table, k, {}) # {}}

\* C20: after Package::config, exclude_feature_sets is the document's
\* exclude_feature_sets followed by its skip_feature_sets, exclude_features is the union
\* of its exclude_features and denylist, include_feature_sets is its
\* include_feature_sets followed by its exact_combinations, the deprecated fields are
\* empty, and one warning was emitted per non-empty deprecated field.
C20_DeprecatedMerged ==
    pc = "configured" =>
        LET old_efs == Field(doc.table, "exclude_feature_sets", <<>>)
            old_ifs == Field(doc.table, "include_feature_sets", <<>>)
            skip == Field(doc.table, "skip_feature_sets", <<>>)
            exact == Field(doc.table, "exact_combinations", <<>>)
        IN /\ Len(config.exclude_feature_sets) = Len(old_efs) + Len(skip)
           /\ \A i \in 1..Len(old_efs) : config.exclude_feature_sets[i] = old_efs[i]
           /\ \A i \in 1..Len(skip) : config.exclude_feature_sets[Len(old_efs) + i] = skip[i]
           /\ config.exclude_features =
                Field(doc.table, "exclude_features", {}) \cup Field(doc.table, "denylist", {})
           /\ Len(config.include_feature_sets) = Len(old_ifs) + Len(exact)
           /\ \A i \in 1..Len(old_ifs) : config.include_feature_sets[i] = old_ifs[i]
           /\ \A i \in 1..Len(exact) : config.include_feature_sets[Len(old_ifs) + i] = exact[i]
           /\ config.deprecated.skip_feature_sets = <<>>
           /\ config.deprecated.denylist = {}
           /\ config.deprecated.exact_combinations = <<>>
           /\ Len(warnings) = Cardinality(NonEmptyDeprecated)
           /\ ToSet(warnings) = NonEmptyDeprecated

\* a document with both exclude_feature_sets and the deprecated skip_feature_sets,
\* holding different entries
C20_Witness ==
    /\ pc = "configured"
    /\ DOMAIN doc.table = {"exclude_feature_sets", "skip_feature_sets"}
    /\ doc.table.exclude_feature_sets # doc.table.skip_feature_sets
    /\ Len(config.exclude_feature_sets) = 2
    /\ warnings = <<"skip_feature_sets">>

(***************************************************************************)
(* Claims on Workspace::packages_for_fc (SpecWorkspace).                   *)
(***************************************************************************)
\* the names listed in the workspace-level exclude_packages or in the root package's
ExcludedNames ==
    Field(metadata.workspace_metadata.table, "exclude_packages", {})
    \cup UNION { Field(metadata.packages[i].doc.table, "exclude_packages", {}) :
                   i \in {j \in 1..Len(metadata.packages) :
                            metadata.root = Some(metadata.packages[j].name)} }

\* the position of a package in metadata.packages
PositionOf(p) == CHOOSE i \in 1..Len(metadata.packages) : metadata.packages[i] = p

\* C19: packages_for_fc returns the workspace packages, in their original order, without
\* the packages named in the workspace-level exclude_packages or in the root package's:
\* a package named in either is not returned, a member named in neither is.
C19_PackagesForFc ==
    pc = "packages" =>
        /\ \A j \in 1..Len(packages) :
             /\ packages[j] \in ToSet(metadata.packages)
             /\ packages[j].name \in metadata.workspace_members
             /\ packages[j].name \notin ExcludedNames
        /\ \A i \in 1..Len(metadata.packages) :
             (/\ metadata.packages[i].name \in metadata.workspace_members
              /\ metadata.packages[i].name \notin ExcludedNames)
                => \E j \in 1..Len(packages) : packages[j] = metadata.packages[i]
        /\ \A j, k \in 1..Len(packages) :
             j < k => PositionOf(packages[j]) < PositionOf(packages[k])

\* the workspace metadata excludes one member, the root package another one, and a
\* member named by neither is returned
C19_Witness ==
    /\ pc = "packages"
    /\ metadata.root # None
    /\ Field(metadata.workspace_metadata.table, "exclude_packages", {}) # {}
    /\ ExcludedNames # Field(metadata.workspace_metadata.table, "exclude_packages", {})
    /\ packages # <<>>
    /\ Len(packages) < Cardinality(metadata.workspace_members)

(***************************************************************************)
(* Claims on the names and on the empty FeatureSet in the output of        *)
(* Package::feature_combinations (Spec).                                   *)
(***************************************************************************)
\* C28: every feature name occurring in a returned FeatureSet is declared by the
\* package; names only listed in include_feature_sets, isolated_feature_sets or
\* include_features never appear.
C28_Original ==
    pc = "combined" =>
        \A F \in Out : F \subseteq features

\* C29 as stated: when no exclude_feature_sets entry is empty the empty FeatureSet is
\* returned, and when some entry is empty only the forced inclusions are returned.
C29_Original ==
    pc = "combined" =>
        /\ (\A i \in 1..Len(config.exclude_feature_sets) : config.exclude_feature_sets[i] # {})
             => {} \in Out
        /\ (\E i \in 1..Len(config.exclude_feature_sets) : config.exclude_feature_sets[i] = {})
             => Out = Forced

\* C29 amended: when include_features is empty and no exclude_feature_sets entry is
\* empty the empty FeatureSet is returned, and when some entry is empty only the
\* forced inclusions are returned.
C29_EmptySet ==
    pc = "combined" =>
        /\ (/\ config.include_features = {}
            /\ \A i \in 1..Len(config.exclude_feature_sets) :
                 config.exclude_feature_sets[i] # {})
             => {} \in Out
        /\ (\E i \in 1..Len(config.exclude_feature_sets) : config.exclude_feature_sets[i] = {})
             => Out = Forced

\* a non-empty exclusion removes generated FeatureSets in isolated mode and the empty
\* FeatureSet stays
C29_Witness ==
    /\ pc = "combined"
    /\ config.include_features = {}
    /\ config.isolated_feature_sets # <<>>
    /\ config.exclude_feature_sets # <<>>
    /\ \A i \in 1..Len(config.exclude_feature_sets) : config.exclude_feature_sets[i] # {}
    /\ \E G \in base_powerset(features, config) : G \notin Out
    /\ {} \in Out

(***************************************************************************)
(* Claims on the exclude_packages of non-root members (SpecWorkspace).     *)
(***************************************************************************)
\* the positions of the workspace members other than the root package whose own
\* configuration lists exclude_packages
NonRootExcluders ==
    { i \in 1..Len(metadata.packages) :
        /\ metadata.packages[i].name \in metadata.workspace_members
        /\ metadata.root # Some(metadata.packages[i].name)
        /\ Field(metadata.packages[i].doc.table, "exclude_packages", {}) # {} }

\* C21: a non-empty exclude_packages of a non-root workspace member removes no package
\* from the list packages_for_fc returns, and a warning is emitted for it in every
\* workspace shape, a virtual workspace without root package included.
C21_Original ==
    pc = "packages" =>
        \A i \in NonRootExcluders :
            /\ \A j \in 1..Len(metadata.packages) :
                 (/\ metadata.packages[j].name
                        \in Field(metadata.packages[i].doc.table, "exclude_packages", {})
                  /\ metadata.packages[j].name \in metadata.workspace_members
                  /\ metadata.packages[j].name \notin ExcludedNames)
                    => \E k \in 1..Len(packages) : packages[k] = metadata.packages[j]
            /\ \E w \in 1..Len(warnings) :
                 warnings[w] = <<"exclude_packages has no effect", metadata.packages[i].name>>

(***************************************************************************)
(* Claims on the order of the subprocesses of run_cargo_command (SpecRun). *)
(***************************************************************************)
\* the (package, FeatureSet) pairs of an invocation: the packages in their order,
\* and for each the output of the engine in its order
RECURSIVE ExpectedRuns(_)
ExpectedRuns(pkgs) ==
    IF pkgs = <<>> THEN <<>>
    ELSE LET combos == feature_combinations(Head(pkgs).features,
                                            Package_config(Head(pkgs).doc))
         IN [i \in 1..Len(combos) |-> <<Head(pkgs).name, combos[i]>>]
              \o ExpectedRuns(Tail(pkgs))

\* the subprocesses spawned so far are the first pairs of the invocation, each once
\* and in order, and the outcomes recorded are theirs, in spawn order
RunsInOrder ==
    ~ options.fail_fast =>
        /\ LET started == ExpectedRuns(SubSeq(packages, 1, package_idx))
           IN /\ Len(spawned) <= Len(started)
              /\ spawned = SubSeq(started, 1, Len(spawned))
        /\ Len(summary) <= Len(spawned)
        /\ Len(spawned) <= Len(summary) + 1
        /\ \A i \in 1..Len(summary) :
             spawned[i] = <<summary[i].package_name, summary[i].features>>
        /\ (pc = "run" \/ (pc = "exited" /\ err = "none")) => Len(summary) = Len(spawned)
        /\ (pc = "exited" /\ err = "none") => spawned = ExpectedRuns(packages)

\* a step spawns at most one subprocess, and only once the outcome of the one
\* before is recorded; it keeps every recorded outcome in place
AppendOnly ==
    /\ Len(spawned') <= Len(spawned) + 1
    /\ Len(spawned') > Len(spawned) => Len(summary) = Len(spawned)
    /\ spawned = SubSeq(spawned', 1, Len(spawned))
    /\ Len(summary') >= Len(summary)
    /\ summary = SubSeq(summary', 1, Len(summary))
    /\ Len(summary') > Len(summary) => Len(spawned') = Len(summary')

\* C24: without fail-fast and when no tool-internal error ends the invocation, exactly
\* one subprocess is spawned per (package, FeatureSet) pair, one after the other, in
\* package order and then in the order of the engine's output; a failing run is not
\* attempted again, and the outcome list only grows, by one entry per subprocess in
\* spawn order.
C24_Sequential == [] RunsInOrder /\ [][AppendOnly]_vars

\* an invocation over two packages that ran to its end after a failing first run
C24_Witness ==
    /\ pc = "exited" /\ err = "none" /\ ~ options.fail_fast
    /\ Len(packages) >= 2
    /\ Len(spawned) = MaxRuns
    /\ ~ summary[1].pedantic_success
    /\ spawned[1][1] # spawned[Len(spawned)][1]

(***************************************************************************)
(* Claims on a failing read of the subprocess's stderr pipe (SpecRun).     *)
(***************************************************************************)
\* C23: a read failure on the stderr pipe does not abort the invocation: an outcome is
\* recorded for the subprocess whose stream failed, the remaining combinations are
\* run, and the summary is printed at the end.
C23_Original ==
    err = "io" =>
        /\ Len(summary) = Len(spawned)
        /\ pc = "exited" =>
             /\ printed = Some(summary_lines(summary))
             /\ ~ options.fail_fast => spawned = ExpectedRuns(packages)

(***************************************************************************)
(* Claims on a malformed configuration document (SpecRun).                 *)
(***************************************************************************)
\* C22: when the configuration document of a package of the invocation is malformed,
\* run_cargo_command fails with the parse error and no subprocess was spawned for any
\* package, and no summary is printed.
C22_Original ==
    (\E i \in 1..Len(packages) : config_is_err(packages[i].doc)) =>
        /\ spawned = <<>>
        /\ printed = None
        /\ err = "config" => pc = "exited" /\ exit_code = Some(1)

(***************************************************************************)
(* Claims on ArgumentParser::get_all and parse_arguments (SpecParse).      *)
(***************************************************************************)
\* C30: the ranges get_all returns are pairwise disjoint, and drained in the returned
\* order they stay inside the vector, so that parse_arguments does not panic, also for
\* a value-taking flag followed by the same flag (`-p -p x`).
C30_Original ==
    /\ \A i \in 1..Len(matched) : \A j \in 1..Len(matched) :
         i < j => (matched[i].hi < matched[j].lo \/ matched[j].hi < matched[i].lo)
    /\ err # "panic"

(***************************************************************************)
(* Claims on the argument vector of a run (SpecArgv).                      *)
(***************************************************************************)
\* the position of the first "--" among the caller's arguments, 0 without one
SeparatorAt ==
    IF \E i \in 1..Len(cargo_args) : cargo_args[i] = <<"--">>
    THEN CHOOSE i \in 1..Len(cargo_args) :
            cargo_args[i] = <<"--">> /\ \A j \in 1..(i - 1) : cargo_args[j] # <<"--">>
    ELSE 0

\* the caller's arguments before the separator, and the separator with what follows
CallerBefore ==
    IF SeparatorAt = 0 THEN cargo_args ELSE SubSeq(cargo_args, 1, SeparatorAt - 1)
CallerAfter ==
    IF SeparatorAt = 0 THEN <<>> ELSE SubSeq(cargo_args, SeparatorAt, Len(cargo_args))

\* the two feature flags of the run whose vector was built last; none when the
\* caller passed no argument at all
InjectedFlags ==
    IF cargo_args = <<>> THEN <<>>
    ELSE << <<"--no-default-features">>,
            <<"--features", "=">> \o join(combinations[features_idx - 1], ",") >>

\* "--color always", present unless the caller passed "--color" before the separator
ForcedColor ==
    IF \E i \in 1..Len(CallerBefore) : CallerBefore[i] = <<"--color">>
    THEN <<>> ELSE << <<"--color">>, <<"always">> >>

\* C27 as stated: the argument vector is the caller's arguments before `--`, then
\* `--no-default-features` and one `--features=<names joined by commas>`, then `--`
\* and everything after it; the two flags are left out exactly when the caller passed
\* no argument at all.
C27_Original ==
    argv # None => argv[1] = CallerBefore \o InjectedFlags \o CallerAfter

\* C27: the argument vector is the caller's arguments before `--`, then
\* `--color always` unless `--color` is one of them, then `--no-default-features` and
\* one `--features=<names joined by commas>`, then `--` and everything after it
\* unchanged; the two flags never come after `--`, and they are left out exactly when
\* the caller passed no argument at all.
C27_ColorForced ==
    argv # None =>
        /\ argv[1] = CallerBefore \o ForcedColor \o InjectedFlags \o CallerAfter
        /\ \A k \in 1..Len(argv[1]) :
             argv[1][k][1] \in {"--no-default-features", "--features"} =>
                \A j \in 1..k : argv[1][j] # <<"--">>
        /\ (\E k \in 1..Len(argv[1]) : argv[1][k] = <<"--no-default-features">>)
              <=> cargo_args # <<>>
        /\ Cardinality({k \in 1..Len(argv[1]) : argv[1][k][1] = "--features"})
              = IF cargo_args = <<>> THEN 0 ELSE 1

\* a run of the FeatureSet {A, B} for a caller who passed `check -- x`
C27_Witness ==
    /\ argv # None
    /\ cargo_args = << <<"check">>, <<"--">>, <<"x">> >>
    /\ combinations[features_idx - 1] = <<"A", "B">>
    /\ argv[1] = << <<"check">>, <<"--color">>, <<"always">>, <<"--no-default-features">>,
                    <<"--features", "=", "A", ",", "B">>, <<"--">>, <<"x">> >>

(***************************************************************************)
(* Claims on the streaming of a subprocess's stderr (SpecTee).             *)
(***************************************************************************)
\* the position of the last "cmd" entry of stdout, 0 without one
LastCmd ==
    IF \E i \in 1..Len(stdout) : stdout[i].kind = "cmd"
    THEN CHOOSE i \in 1..Len(stdout) :
            stdout[i].kind = "cmd" /\ \A j \in (i + 1)..Len(stdout) : stdout[j].kind # "cmd"
    ELSE 0

\* the bytes of the subprocess's stderr written to stdout since the last "cmd" entry
RECURSIVE StderrBytes(_)
StderrBytes(entries) ==
    IF entries = <<>> THEN <<>>
    ELSE (IF Head(entries).kind = "stderr" THEN Head(entries).data ELSE <<>>)
            \o StderrBytes(Tail(entries))

Relayed == StderrBytes(SubSeq(stdout, LastCmd + 1, Len(stdout)))

\* C25: in non-silent mode the capture buffer is at every point a prefix of the bytes
\* relayed to the standard output for the run, behind by at most the chunk being
\* copied; the standard output is flushed after every chunk; and a run that streamed
\* to its end has captured and relayed the bytes the subprocess wrote, in their order.
C25_Tee ==
    (~ options.silent /\ spawned # <<>> /\ err # "spawn") =>
        /\ Len(colored_output) <= Len(Relayed)
        /\ colored_output = SubSeq(Relayed, 1, Len(colored_output))
        /\ Relayed = colored_output \o (IF buf = None THEN <<>> ELSE buf[1])
        /\ (pc = "streaming" /\ Relayed # <<>>) => flushed = Len(stdout)
        /\ Len(summary) = Len(spawned) =>
             /\ colored_output = Relayed
             /\ colored_output = render(reports, TRUE)

\* a run that wrote a warning summary and streamed to its end, its last chunk relayed
\* and flushed but not yet in the buffer
C25_Witness ==
    /\ ~ options.silent
    /\ pc = "streaming"
    /\ proc_stderr = <<>>
    /\ buf # None /\ Len(buf[1]) = MaxChunk
    /\ colored_output # <<>>
    /\ Relayed = render(reports, TRUE)
    /\ flushed = Len(stdout)

\* C26: in silent mode nothing of a subprocess's stderr is written to the standard
\* output while it streams; stdout holds bytes of a stderr only after fail-fast ended
\* the invocation on a failing run, and then it holds all the captured bytes of that
\* run, followed by the summary.
C26_Silent ==
    options.silent =>
        /\ pc = "streaming" => Relayed = <<>>
        /\ (\E i \in 1..Len(stdout) : stdout[i].kind = "stderr") =>
             /\ pc = "exited" /\ options.fail_fast
             /\ ~ summary[Len(summary)].pedantic_success
        /\ (pc = "exited" /\ options.fail_fast /\ Failing # {}) =>
             /\ Relayed = colored_output
             /\ colored_output = render(reports, TRUE)
             /\ stdout[Len(stdout)].kind = "summary"
             /\ \A i \in (LastCmd + 1)..(Len(stdout) - 1) : stdout[i].kind = "stderr"
             /\ flushed = Len(stdout)
             /\ printed = Some(summary_lines(summary))

\* a silent invocation whose second run fails: fail-fast writes its captured stderr,
\* and nothing of the first run's
C26_Witness ==
    /\ options.silent /\ options.fail_fast
    /\ pc = "exited"
    /\ Len(summary) = 2
    /\ summary[1].num_warnings > 0
    /\ colored_output # <<>>
    /\ Relayed = colored_output
    /\ stdout[Len(stdout)].kind = "summary"

====
